---- MODULE Spec2Model ----
(***************************************************************************)
(* Question-to-insight pipeline of the Horus backend.                      *)
(*                                                                         *)
(* Two entry points are modelled, each as a sequence of steps between its  *)
(* await points:                                                           *)
(*   EnhancedQueryProcessor.process_query_with_updates                     *)
(*       (backend/app/services/enhanced_query_processor.py)                *)
(*   AdaptiveQueryEngine.process_natural_language_query                    *)
(*       (backend/app/services/adaptive_query_engine.py)                   *)
(* together with the text functions of EnhancedLLMService they call.       *)
(*                                                                         *)
(* Texts (questions, SQL, collaborator answers) are strings handled        *)
(* character by character, so that substring tests, case conversion and    *)
(* the cleaning of generated SQL are computed as the code computes them.   *)
(* The collaborators (generation service, relational store) answer         *)
(* nondeterministically: a text or an error, a row count or an error.      *)
(***************************************************************************)
EXTENDS Integers, Sequences, FiniteSets, TLC

VARIABLES
    engine,          \* which entry point is running: "none", "enhanced", "adaptive"
    pc,              \* position of the run inside its entry point
    question,        \* the question of the run
    dataset_id,      \* the dataset id of the run
    dataset,         \* the dataset record once looked up (NoDataset before)
    intent_analysis, \* result of _analyze_question_intent (NoIntent before)
    sql_query,       \* the SQL chosen by the planner ("" before)
    origin,          \* "none", "generated" or "fallback"
    guard,           \* verdict of _sanitize_sql on the generated text, if it ran
    fallbacks,       \* how many times a fallback template was built in this run
    gen_outcome,     \* what the generation collaborator did: "none", "text", "error"
    executed,        \* SQL texts handed to the execution collaborator, in order
    query_results,   \* what came back from execution (NoResults before)
    visualization,   \* "none", or the visualization built
    events,          \* progress events sent with send_query_update, in order
    raised,          \* the stage whose failure ended the run ("none" if none)
    fail_at,         \* number of events already sent when that stage failed
    ret,             \* the object returned to the caller (NoReturn before)
    user_id,         \* the user the run reports to ("" when no run reports)
    active_connections, \* WebSocketManager.active_connections: connection id -> socket
    user_sessions,   \* WebSocketManager.user_sessions: user id -> set of connection ids
    handlers,        \* the websocket_endpoint handler of each socket
    send_failed,     \* whether a send of this run's updates has failed
    viz_calls,       \* the calls of generate_visualization in progress, per caller
    memory           \* the ConversationMemoryService, its two stores and its last call

vars == <<engine, pc, question, dataset_id, dataset, intent_analysis, sql_query,
          origin, guard, fallbacks, gen_outcome, executed, query_results,
          visualization, events, raised, fail_at, ret, user_id,
          active_connections, user_sessions, handlers, send_failed, viz_calls, memory>>

\* the variables of the two pipelines and of the websocket registry
run_vars == <<engine, pc, question, dataset_id, dataset, intent_analysis, sql_query,
              origin, guard, fallbacks, gen_outcome, executed, query_results,
              visualization, events, raised, fail_at, ret, user_id,
              active_connections, user_sessions, handlers, send_failed>>

(***************************************************************************)
(* Text primitives (Python str operations used by the code).               *)
(***************************************************************************)
Ch(s, i) == SubSeq(s, i, i)

LowerAlpha == "abcdefghijklmnopqrstuvwxyz"
UpperAlpha == "ABCDEFGHIJKLMNOPQRSTUVWXYZ"
Digits == "0123456789"

\* 0 when c is not a character of alpha
IndexIn(alpha, c) ==
    IF \E i \in 1..Len(alpha) : Ch(alpha, i) = c
    THEN CHOOSE i \in 1..Len(alpha) : Ch(alpha, i) = c
    ELSE 0

UpperCh(c) == IF IndexIn(LowerAlpha, c) = 0 THEN c ELSE Ch(UpperAlpha, IndexIn(LowerAlpha, c))
LowerCh(c) == IF IndexIn(UpperAlpha, c) = 0 THEN c ELSE Ch(LowerAlpha, IndexIn(UpperAlpha, c))

RECURSIVE Upper(_)
Upper(s) == IF s = "" THEN "" ELSE UpperCh(Ch(s, 1)) \o Upper(Tail(s))

RECURSIVE Lower(_)
Lower(s) == IF s = "" THEN "" ELSE LowerCh(Ch(s, 1)) \o Lower(Tail(s))

StartsWithAt(s, i, p) == i + Len(p) - 1 <= Len(s) /\ SubSeq(s, i, i + Len(p) - 1) = p
StartsWith(s, p) == StartsWithAt(s, 1, p)
EndsWith(s, p) == Len(p) <= Len(s) /\ SubSeq(s, Len(s) - Len(p) + 1, Len(s)) = p

\* Python's  p in s
Contains(s, p) == \E i \in 1..(Len(s) - Len(p) + 1) : StartsWithAt(s, i, p)

\* index of the first occurrence of p in s at or after i, 0 if none
FindFrom(s, p, i) ==
    IF \E j \in i..(Len(s) - Len(p) + 1) : StartsWithAt(s, j, p)
    THEN CHOOSE j \in i..(Len(s) - Len(p) + 1) :
            StartsWithAt(s, j, p) /\ \A k \in i..(j - 1) : ~StartsWithAt(s, k, p)
    ELSE 0

IsSpace(c) == c \in {" ", "\n", "\t", "\r"}
IsWordCh(c) == IndexIn(LowerAlpha, c) > 0 \/ IndexIn(UpperAlpha, c) > 0
               \/ IndexIn(Digits, c) > 0 \/ c = "_"
IsIdentStart(c) == IndexIn(LowerAlpha, c) > 0 \/ IndexIn(UpperAlpha, c) > 0 \/ c = "_"

RECURSIVE LStrip(_)
LStrip(s) == IF s # "" /\ IsSpace(Ch(s, 1)) THEN LStrip(Tail(s)) ELSE s

RECURSIVE RStrip(_)
RStrip(s) == IF s # "" /\ IsSpace(Ch(s, Len(s))) THEN RStrip(SubSeq(s, 1, Len(s) - 1)) ELSE s

Strip(s) == LStrip(RStrip(s))

\* Python's  s.rstrip(c)  for a single character c
RECURSIVE RStripCh(_, _)
RStripCh(s, c) == IF s # "" /\ Ch(s, Len(s)) = c THEN RStripCh(SubSeq(s, 1, Len(s) - 1), c) ELSE s

\* Python's  s.split(sep)  (sep not empty)
RECURSIVE Split(_, _)
Split(s, sep) ==
    LET j == FindFrom(s, sep, 1)
    IN  IF j = 0 THEN <<s>>
        ELSE <<SubSeq(s, 1, j - 1)>> \o Split(SubSeq(s, j + Len(sep), Len(s)), sep)

\* Python's  sep.join(parts)
RECURSIVE Join(_, _)
Join(parts, sep) ==
    IF parts = <<>> THEN ""
    ELSE IF Len(parts) = 1 THEN parts[1]
    ELSE parts[1] \o sep \o Join(Tail(parts), sep)

\* Python's  s.replace(old, new)
RECURSIVE Replace(_, _, _)
Replace(s, old, new) ==
    LET j == FindFrom(s, old, 1)
    IN  IF j = 0 THEN s
        ELSE SubSeq(s, 1, j - 1) \o new \o Replace(SubSeq(s, j + Len(old), Len(s)), old, new)

\* any(p in s for p in patterns)
AnyIn(patterns, s) == \E i \in 1..Len(patterns) : Contains(s, patterns[i])

\* sum(1 for p in patterns if p in s)
CountIn(patterns, s) == Cardinality({i \in 1..Len(patterns) : Contains(s, patterns[i])})


\* The backquote cannot be written inside a string of this notation: BQ stands
\* for that one character wherever the code writes it (the markdown fence).
BQ == "@"

\* list(schema.keys())[:5] in the fallback of _generate_adaptive_sql
FallbackColumns == 5

\* len(question_lower) <= 3 in _is_conversational_message
ShortMessageLen == 3
Fence == BQ \o BQ \o BQ

(***************************************************************************)
(* EnhancedLLMService: intent analysis.                                    *)
(***************************************************************************)
\* self.business_patterns, in the dict's order
IntentOrder == <<"metrics", "comparisons", "trends", "rankings", "filters">>

BusinessKeywords(intent_type) ==
    CASE intent_type = "metrics" ->
            <<"total", "sum", "average", "avg", "count", "how many", "number of">>
      [] intent_type = "comparisons" ->
            <<"compare", "vs", "versus", "against", "between">>
      [] intent_type = "trends" ->
            <<"trend", "over time", "monthly", "weekly", "daily", "growth", "change">>
      [] intent_type = "rankings" ->
            <<"top", "best", "worst", "highest", "lowest", "most", "least">>
      [] intent_type = "filters" ->
            <<"where", "when", "only", "except", "excluding", "including">>

\* The loop over business_patterns: acc is (primary_intent, confidence) with the
\* confidence kept as the fraction num/den; a category replaces the current one
\* only when its confidence is strictly greater.
RECURSIVE IntentLoop(_, _, _)
IntentLoop(i, acc, question_lower) ==
    IF i > Len(IntentOrder) THEN acc
    ELSE LET kws == BusinessKeywords(IntentOrder[i])
             keyword_matches == CountIn(kws, question_lower)
             better == keyword_matches > 0
                       /\ keyword_matches * acc.den > acc.num * Len(kws)
         IN  IntentLoop(i + 1,
                        IF better
                        THEN [primary_intent |-> IntentOrder[i],
                              num |-> keyword_matches, den |-> Len(kws)]
                        ELSE acc,
                        question_lower)

\* business_term_mapping, in the dict's order
BusinessTerms == <<"customers", "users", "people", "sales", "revenue", "products", "orders">>

ColumnPatterns(term) ==
    CASE term = "customers" -> <<"user", "customer", "client", "account">>
      [] term = "users" -> <<"user", "customer", "client", "account">>
      [] term = "people" -> <<"user", "customer", "person", "individual">>
      [] term = "sales" -> <<"sale", "order", "transaction", "purchase">>
      [] term = "revenue" -> <<"revenue", "amount", "value", "price", "cost">>
      [] term = "products" -> <<"product", "item", "goods", "service">>
      [] term = "orders" -> <<"order", "purchase", "transaction", "sale">>

\* the entries one schema column adds to entities["columns"]
RECURSIVE TermMatches(_, _, _)
TermMatches(t, col_name, question_lower) ==
    IF t > Len(BusinessTerms) THEN <<>>
    ELSE (IF Contains(question_lower, BusinessTerms[t])
             /\ \E k \in 1..Len(ColumnPatterns(BusinessTerms[t])) :
                    Contains(Lower(col_name), ColumnPatterns(BusinessTerms[t])[k])
          THEN <<col_name>> ELSE <<>>)
         \o TermMatches(t + 1, col_name, question_lower)

ColumnEntities(col, question_lower) ==
    LET col_variations == <<col.name, Replace(col.name, "_", " "),
                            Replace(col.name, "_", ""), Lower(col.description)>>
    IN  IF \E v \in 1..4 : col_variations[v] # ""
                           /\ Contains(question_lower, Lower(col_variations[v]))
        THEN <<col.name>>
        ELSE TermMatches(1, col.name, question_lower)

RECURSIVE ExtractColumns(_, _)
ExtractColumns(schema, question_lower) ==
    IF schema = <<>> THEN <<>>
    ELSE ColumnEntities(schema[1], question_lower) \o ExtractColumns(Tail(schema), question_lower)

\* agg_patterns, in the dict's order
AggOrder == <<"COUNT", "SUM", "AVG", "MAX", "MIN">>

AggPatterns(agg) ==
    CASE agg = "COUNT" -> <<"count", "how many", "number of", "total number">>
      [] agg = "SUM" -> <<"sum", "total", "add up">>
      [] agg = "AVG" -> <<"average", "avg", "mean">>
      [] agg = "MAX" -> <<"maximum", "max", "highest", "largest", "biggest">>
      [] agg = "MIN" -> <<"minimum", "min", "lowest", "smallest">>

RECURSIVE ExtractAggregations(_, _)
ExtractAggregations(i, question_lower) ==
    IF i > Len(AggOrder) THEN <<>>
    ELSE (IF AnyIn(AggPatterns(AggOrder[i]), question_lower) THEN <<AggOrder[i]>> ELSE <<>>)
         \o ExtractAggregations(i + 1, question_lower)

_extract_business_entities(q, schema) ==
    [columns |-> ExtractColumns(schema, Lower(q)),
     aggregations |-> ExtractAggregations(1, Lower(q))]

\* primary intent, its confidence num/den, and the entities; the other keys of
\* the analysis (result_type, time_dimension, complexity) only reach the prompt
\* and the explanation text.
_analyze_question_intent(q, schema) ==
    LET best == IntentLoop(1, [primary_intent |-> "exploration", num |-> 1, den |-> 2],
                           Lower(q))
    IN  [primary_intent |-> best.primary_intent,
         num |-> best.num, den |-> best.den,
         entities |-> _extract_business_entities(q, schema)]

(***************************************************************************)
(* EnhancedLLMService: cleaning of generated SQL and fallback templates.   *)
(***************************************************************************)
\* re.sub(fence + '\n?', '', s): every occurrence of the fence text, with one
\* newline after it when there is one, is removed
RECURSIVE RemoveFence(_, _)
RemoveFence(s, fence) ==
    LET j == FindFrom(s, fence, 1)
        after == j + Len(fence)
        rest == IF after <= Len(s) /\ Ch(s, after) = "\n" THEN after + 1 ELSE after
    IN  IF j = 0 THEN s
        ELSE SubSeq(s, 1, j - 1) \o RemoveFence(SubSeq(s, rest, Len(s)), fence)

StartsWithAny(s, prefixes) == \E i \in 1..Len(prefixes) : StartsWith(s, prefixes[i])

SqlLineStarts == <<"SELECT", "WITH", "FROM", "WHERE", "GROUP BY", "ORDER BY", "HAVING",
                   "LIMIT", "JOIN", "LEFT JOIN", "RIGHT JOIN", "INNER JOIN", "AND", "OR">>
ProseLineStarts == <<"THE", "THIS", "HERE", "ABOVE", "NOTE">>

\* the loop keeping the SQL lines of the answer
RECURSIVE KeepSqlLines(_, _)
KeepSqlLines(lines, sql_lines) ==
    IF lines = <<>> THEN sql_lines
    ELSE LET line == Strip(lines[1])
             keep == StartsWithAny(Upper(line), SqlLineStarts)
                     \/ (sql_lines # <<>> /\ ~StartsWithAny(Upper(line), ProseLineStarts))
         IN  KeepSqlLines(Tail(lines), IF keep THEN Append(sql_lines, line) ELSE sql_lines)

\* The column-quoting substitution of _apply_business_enhancements:
\*   \b([a-zA-Z_][a-zA-Z0-9_]*)\s*(?=\s*(,|\)|$|FROM|WHERE|GROUP|ORDER|HAVING))  ->  "\1"
QuoteKeywords == <<"FROM", "WHERE", "GROUP", "ORDER", "HAVING">>
KeywordAt(s, w) == \E k \in 1..Len(QuoteKeywords) : StartsWithAt(s, w, QuoteKeywords[k])
LookaheadAt(s, w) == w > Len(s) \/ Ch(s, w) \in {",", ")"} \/ KeywordAt(s, w)
AtWordStart(s, i) == IsWordCh(Ch(s, i)) /\ (i = 1 \/ ~IsWordCh(Ch(s, i - 1)))

RECURSIVE IdentEnd(_, _)
IdentEnd(s, i) == IF i < Len(s) /\ IsWordCh(Ch(s, i + 1)) THEN IdentEnd(s, i + 1) ELSE i

RECURSIVE SkipSpaces(_, _)
SkipSpaces(s, w) == IF w <= Len(s) /\ IsSpace(Ch(s, w)) THEN SkipSpaces(s, w + 1) ELSE w

RECURSIVE QuoteFrom(_, _)
QuoteFrom(s, i) ==
    IF i > Len(s) THEN ""
    ELSE IF AtWordStart(s, i) /\ IsIdentStart(Ch(s, i))
    THEN LET j == IdentEnd(s, i)
             w == SkipSpaces(s, j + 1)
             shorter == {k \in i..(j - 1) : KeywordAt(s, k + 1)}
             kmax == CHOOSE k \in shorter : \A m \in shorter : m <= k
         IN  IF LookaheadAt(s, w)
             THEN "\"" \o SubSeq(s, i, j) \o "\"" \o QuoteFrom(s, w)
             ELSE IF shorter # {}
             THEN "\"" \o SubSeq(s, i, kmax) \o "\"" \o QuoteFrom(s, kmax + 1)
             ELSE Ch(s, i) \o QuoteFrom(s, i + 1)
    ELSE Ch(s, i) \o QuoteFrom(s, i + 1)

_apply_business_enhancements(sql, intent) ==
    LET limited ==
            IF intent.primary_intent \in {"rankings", "exploration"}
               /\ ~Contains(Upper(sql), "LIMIT")
            THEN IF intent.primary_intent = "rankings"
                 THEN RStripCh(sql, ";") \o " LIMIT 10;"
                 ELSE RStripCh(sql, ";") \o " LIMIT 100;"
            ELSE sql
    IN  QuoteFrom(limited, 1)

_clean_and_validate_sql(text, intent) ==
    LET sql == RemoveFence(RemoveFence(Strip(text), Fence \o "sql"), Fence)
        sql_lines == KeepSqlLines(Split(sql, "\n"), <<>>)
        cleaned_sql == IF sql_lines # <<>> THEN Join(sql_lines, "\n") ELSE sql
        enhanced == _apply_business_enhancements(cleaned_sql, intent)
    IN  IF ~EndsWith(RStrip(enhanced), ";") THEN enhanced \o ";" ELSE enhanced

\* a fallback that ignores the intent
GenericFallbackSql(q, table_name, intent) == "SELECT * FROM " \o table_name \o " LIMIT 10;"

_generate_fallback_sql(q, table_name, intent) ==
    IF intent.primary_intent = "metrics" /\ intent.entities.aggregations # <<>>
    THEN IF intent.entities.columns # <<>>
         THEN "SELECT " \o intent.entities.aggregations[1] \o "(\""
              \o intent.entities.columns[1] \o "\") as result FROM " \o table_name \o ";"
         ELSE "SELECT COUNT(*) as total_records FROM " \o table_name \o ";"
    ELSE IF intent.primary_intent = "rankings" /\ intent.entities.columns # <<>>
    THEN "SELECT * FROM " \o table_name \o " ORDER BY \"" \o intent.entities.columns[1]
         \o "\" " \o (IF AnyIn(<<"top", "highest", "best">>, Lower(q)) THEN "DESC" ELSE "ASC")
         \o " LIMIT 10;"
    ELSE "SELECT * FROM " \o table_name \o " LIMIT 10;"

(***************************************************************************)
(* AdaptiveQueryEngine: the guard, the cleaning and the fallback.          *)
(***************************************************************************)
dangerous_patterns == <<"DROP", "DELETE", "INSERT", "UPDATE", "CREATE", "ALTER",
                        "EXEC", "EXECUTE", "TRUNCATE", "MERGE", "CALL">>

\* a guard that looks for the keywords as whole words only
DangerousWholeWord(sql) ==
    LET u == Upper(sql)
    IN  \E n \in 1..Len(dangerous_patterns) :
            LET k == dangerous_patterns[n]
            IN  \E i \in 1..Len(u) :
                    /\ StartsWithAt(u, i, k)
                    /\ i = 1 \/ ~IsWordCh(Ch(u, i - 1))
                    /\ i + Len(k) > Len(u) \/ ~IsWordCh(Ch(u, i + Len(k)))

\* TRUE when _sanitize_sql raises on sql; it returns sql unchanged otherwise
Dangerous(sql) == AnyIn(dangerous_patterns, Upper(sql))

\* the clean-up of the answer in _generate_adaptive_sql
AdaptiveClean(sql_response) ==
    LET s1 == Strip(sql_response)
        parts == Split(s1, Fence)
        s2 == IF StartsWith(s1, Fence) THEN Strip(parts[2]) ELSE s1
    IN  IF StartsWith(s2, "sql") THEN Strip(SubSeq(s2, 4, Len(s2))) ELSE s2

\* names of the first n columns of the schema
RECURSIVE ColumnNames(_, _)
ColumnNames(schema, n) ==
    IF schema = <<>> \/ n = 0 THEN <<>>
    ELSE <<schema[1].name>> \o ColumnNames(Tail(schema), n - 1)

AdaptiveFallbackSql(schema, table_name) ==
    "SELECT " \o Join(ColumnNames(schema, FallbackColumns), ", ")
    \o " FROM " \o table_name \o " LIMIT 10"

\* the safety measure of _execute_query_safely
WithDefaultLimit(sql) ==
    IF ~Contains(Upper(sql), "LIMIT") THEN sql \o " LIMIT 1000" ELSE sql

(***************************************************************************)
(* EnhancedQueryProcessor._is_conversational_message                       *)
(***************************************************************************)
conversational_patterns ==
    <<"hi", "hello", "hey", "good morning", "good afternoon", "good evening", "greetings",
      "thank you", "thanks", "goodbye", "bye", "see you", "nice to meet",
      "help", "what can you do", "how do you work", "what are your capabilities",
      "who are you", "what are you", "tell me about yourself", "introduce yourself",
      "how are you", "nice to meet you", "good job", "well done", "amazing", "awesome">>

data_indicators ==
    <<"show", "display", "list", "find", "get", "retrieve", "fetch",
      "analyze", "analysis", "calculate", "count", "sum", "average", "total",
      "data", "records", "rows", "table", "database", "dataset", "information",
      "how many", "what is", "what are", "which", "when", "where",
      "users", "customers", "sales", "revenue", "profit", "orders", "products",
      "active", "inactive", "status", "region", "country", "spending",
      "compare", "comparison", "versus", "vs", "between", "difference",
      "trend", "over time", "historical", "growth", "decline", "change",
      "chart", "graph", "visualization", "plot", "dashboard", "report">>

query_starters ==
    <<"how many", "how much", "what is the", "what are the", "show me",
      "give me", "i want", "i need", "can you show", "can you tell me about",
      "what about", "tell me about the", "analyze", "calculate">>

general_info_terms == <<"yourself", "your capabilities", "how you work", "what you do">>

business_context_terms ==
    <<"business", "company", "organization", "metrics", "kpi", "dashboard",
      "insight", "analytics", "intelligence">>

single_word_conversational == {"ok", "okay", "yes", "no", "sure", "great", "cool", "nice"}

_is_conversational_message(q) ==
    LET question_lower == Strip(Lower(q))
    IN  IF AnyIn(conversational_patterns, question_lower) THEN TRUE
        ELSE IF AnyIn(data_indicators, question_lower) THEN FALSE
        ELSE IF StartsWithAny(question_lower, query_starters)
        THEN AnyIn(general_info_terms, question_lower)
        ELSE IF AnyIn(business_context_terms, question_lower) THEN FALSE
        ELSE IF Len(question_lower) <= ShortMessageLen THEN TRUE
        ELSE question_lower \in single_word_conversational

(***************************************************************************)
(* The inputs of the runs and the collaborators' answers.                  *)
(***************************************************************************)
\* ' LIMIT 1000' of _execute_query_safely: the default row limit
RowCap == 1000

\* tables hold up to RowCap + ExtraRows rows
ExtraRows == 1

TableSizes == {0, 1} \cup {RowCap + k : k \in 0..ExtraRows}

Column(name, type, description) == [name |-> name, type |-> type, description |-> description]

\* the datasets of the store: table name, schema (columns in the dict's order),
\* and whether the DataSource row of the dataset exists
Datasets ==
    [d1 |-> [table_name |-> "t",
             schema |-> <<Column("price", "number", "price column"),
                          Column("status", "category", "status column")>>,
             has_source |-> TRUE],
     d2 |-> [table_name |-> "sales",
             schema |-> <<Column("order_total", "number", "amount paid"),
                          Column("updated_at", "date", "")>>,
             has_source |-> TRUE],
     d3 |-> [table_name |-> "updates",
             schema |-> <<Column("name", "text", "name column")>>,
             has_source |-> TRUE],
     d4 |-> [table_name |-> "orphan",
             schema |-> <<Column("name", "text", "name column")>>,
             has_source |-> FALSE]]

\* ids a caller may pass: the stored ones and one that is not stored
DatasetIds == DOMAIN Datasets \cup {"d9"}

Questions ==
    {"hello",
     "How many active users are there?",
     "count the total sum and average price",
     "What's the average price?",
     "top best worst most order total",
     "compare sales vs cost between regions",
     "Which region has the highest sales?"}

\* texts the generation collaborator may answer with
GeneratedTexts ==
    {"SELECT * FROM t",
     "SELECT * FROM t; DROP TABLE t;",
     "drop table t",
     Fence \o "sql\nSELECT name FROM t LIMIT 5\n" \o Fence,
     "select * from t limit 5000",
     "SELECT created_at FROM t",
     "I cannot answer that"}

(***************************************************************************)
(* The text functions over the inputs above, evaluated once.               *)
(***************************************************************************)
\* analyze_business_question: the intent of each question on each schema
question_intent ==
    [q \in Questions, d \in DOMAIN Datasets |->
        _analyze_question_intent(q, Datasets[d].schema)]

Intents == {question_intent[q, d] : q \in Questions, d \in DOMAIN Datasets}

\* _generate_business_sql, try branch: the cleaned text of each answer
cleaned_sql ==
    [text \in GeneratedTexts, intent \in Intents |-> _clean_and_validate_sql(text, intent)]

\* _generate_business_sql, except branch: the template of each question
fallback_sql ==
    [q \in Questions, d \in DOMAIN Datasets |->
        _generate_fallback_sql(q, Datasets[d].table_name, question_intent[q, d])]

\* _generate_adaptive_sql, try branch: the cleaned text and the guard's verdict
adaptive_sql ==
    [sql_response \in GeneratedTexts |->
        [sql_query |-> AdaptiveClean(sql_response),
         dangerous |-> Dangerous(AdaptiveClean(sql_response))]]

\* _generate_adaptive_sql, except branch: the template of each dataset
adaptive_fallback_sql ==
    [d \in DOMAIN Datasets |-> AdaptiveFallbackSql(Datasets[d].schema, Datasets[d].table_name)]

\* the plans _execute_query_safely may be given, and the text it executes
AdaptivePlans ==
    {adaptive_sql[t].sql_query : t \in {x \in GeneratedTexts : ~adaptive_sql[x].dangerous}}
        \cup {adaptive_fallback_sql[d] : d \in DOMAIN Datasets}

safe_sql == [sql \in AdaptivePlans |-> WithDefaultLimit(sql)]

NoDataset == [table_name |-> "", schema |-> <<>>, has_source |-> FALSE]
NoIntent == [primary_intent |-> "", num |-> 0, den |-> 1,
             entities |-> [columns |-> <<>>, aggregations |-> <<>>]]
NoResults == [keys |-> {}, row_count |-> 0, raw_rows |-> 0, truncated |-> "absent", returned |-> FALSE]
NoReturn == [keys |-> {}, success |-> "absent", error |-> ""]

\* The store honours the last LIMIT n of the text it is given.
NoLimit == 0 - 1

RECURSIVE ParseInt(_, _, _)
ParseInt(s, i, acc) ==
    IF i <= Len(s) /\ IndexIn(Digits, Ch(s, i)) > 0
    THEN ParseInt(s, i + 1, acc * 10 + (IndexIn(Digits, Ch(s, i)) - 1))
    ELSE acc

LimitOf(sql) ==
    LET u == Upper(sql)
        at == {i \in 1..Len(u) : StartsWithAt(u, i, "LIMIT")
                                  /\ SkipSpaces(u, i + 5) <= Len(u)
                                  /\ IndexIn(Digits, Ch(u, SkipSpaces(u, i + 5))) > 0}
        last == CHOOSE i \in at : \A j \in at : j <= i
    IN  IF at = {} THEN NoLimit ELSE ParseInt(u, SkipSpaces(u, last + 5), 0)

RowsReturned(sql, size) ==
    IF LimitOf(sql) # NoLimit /\ LimitOf(sql) < size THEN LimitOf(sql) ELSE size

Event(status, progress) == [status |-> status, progress |-> progress]

\* websocket_manager.send_query_update: one more progress event
Emit(evs, status, progress) == Append(evs, Event(status, progress))

(***************************************************************************)
(* WebSocketManager: the registry of connections and the sending.          *)
(***************************************************************************)
Sockets == {"s1", "s2"}
ConnectionIds == {"c1", "c2"}
Users == {"default", "u1"}

\* the user_id default of disconnect
DefaultUser == "default"

NoHandler == [state |-> "new", connection_id |-> "", user_id |-> ""]

Registry(ac, us) == [active_connections |-> ac, user_sessions |-> us]

Without(f, k) == [x \in DOMAIN f \ {k} |-> f[x]]

With(f, k, v) == [x \in DOMAIN f \cup {k} |-> IF x = k THEN v ELSE f[x]]

\* WebSocketManager.disconnect(connection_id, user_id)
disconnect(reg, connection_id, user) ==
    LET ac == Without(reg.active_connections, connection_id)
        us == reg.user_sessions
    IN  IF user \in DOMAIN us
        THEN IF us[user] \ {connection_id} = {}
             THEN Registry(ac, Without(us, user))
             ELSE Registry(ac, [us EXCEPT ![user] = us[user] \ {connection_id}])
        ELSE Registry(ac, us)

\* WebSocketManager.send_to_connection: a send that raises removes the
\* connection with disconnect(connection_id), the user left to its default
send_to_connection(reg, connection_id, ok) ==
    IF connection_id \in DOMAIN reg.active_connections /\ ~ok
    THEN disconnect(reg, connection_id, DefaultUser)
    ELSE reg

\* the connections of a user a message is sent to
Targets(reg, user) ==
    IF user \in DOMAIN reg.user_sessions
    THEN reg.user_sessions[user] \cap DOMAIN reg.active_connections
    ELSE {}

\* WebSocketManager.send_to_user: one send per connection of the user; `fails`
\* are the connections whose send raises
RECURSIVE send_to_user(_, _, _)
send_to_user(reg, user, fails) ==
    IF fails = {}
    THEN reg
    ELSE LET c == CHOOSE x \in fails : TRUE
         IN  send_to_user(send_to_connection(reg, c, FALSE), user, fails \ {c})

\* WebSocketManager.connect(websocket, connection_id, user_id), the
\* confirmation message included
connect(reg, socket, connection_id, user, ok) ==
    LET us == reg.user_sessions
        sessions == IF user \in DOMAIN us THEN us[user] ELSE {}
    IN  send_to_connection(
            Registry(With(reg.active_connections, connection_id, socket),
                     With(us, user, sessions \cup {connection_id})),
            connection_id, ok)

CurrentRegistry == Registry(active_connections, user_sessions)

\* a send_query_update that waits until the user has a connection
DeliverWhenConnected(user) ==
    /\ Targets(CurrentRegistry, user) # {}
    /\ UNCHANGED <<active_connections, user_sessions, handlers, send_failed>>

\* send_query_update of a run: the message goes to every connection of the
\* user; no exception leaves send_to_connection
Deliver(user) ==
    \E fails \in SUBSET Targets(CurrentRegistry, user) :
        LET reg == send_to_user(CurrentRegistry, user, fails)
        IN  /\ active_connections' = reg.active_connections
            /\ user_sessions' = reg.user_sessions
            /\ send_failed' = (send_failed \/ fails # {})
            /\ handlers' = handlers

\* websocket_endpoint: a client opens a socket
WebsocketConnect(socket, connection_id, user) ==
    /\ handlers[socket].state = "new"
    /\ \E ok \in BOOLEAN :
        LET reg == connect(CurrentRegistry, socket, connection_id, user, ok)
        IN  /\ active_connections' = reg.active_connections
            /\ user_sessions' = reg.user_sessions
    /\ handlers' = [handlers EXCEPT ![socket] =
                       [state |-> "open", connection_id |-> connection_id, user_id |-> user]]
    /\ UNCHANGED <<engine, pc, question, dataset_id, dataset, intent_analysis, sql_query,
                   origin, guard, fallbacks, gen_outcome, executed, query_results,
                   visualization, events, raised, fail_at, ret, user_id, send_failed>>
    /\ UNCHANGED <<viz_calls, memory>>

\* websocket_endpoint: a message of the client is acknowledged
WebsocketReceive(socket) ==
    /\ handlers[socket].state = "open"
    /\ \E ok \in BOOLEAN :
        LET reg == send_to_connection(CurrentRegistry, handlers[socket].connection_id, ok)
        IN  /\ active_connections' = reg.active_connections
            /\ user_sessions' = reg.user_sessions
    /\ UNCHANGED <<engine, pc, question, dataset_id, dataset, intent_analysis, sql_query,
                   origin, guard, fallbacks, gen_outcome, executed, query_results,
                   visualization, events, raised, fail_at, ret, user_id, handlers,
                   send_failed>>
    /\ UNCHANGED <<viz_calls, memory>>

\* websocket_endpoint: the client goes away; finally: disconnect
WebsocketClose(socket) ==
    /\ handlers[socket].state = "open"
    /\ LET reg == disconnect(CurrentRegistry, handlers[socket].connection_id,
                             handlers[socket].user_id)
       IN  /\ active_connections' = reg.active_connections
           /\ user_sessions' = reg.user_sessions
    /\ handlers' = [handlers EXCEPT ![socket] = NoHandler]
    /\ UNCHANGED <<engine, pc, question, dataset_id, dataset, intent_analysis, sql_query,
                   origin, guard, fallbacks, gen_outcome, executed, query_results,
                   visualization, events, raised, fail_at, ret, user_id, send_failed>>
    /\ UNCHANGED <<viz_calls, memory>>

(***************************************************************************)
(* VisualizationEngine: the analysis of a result and the chart selection.  *)
(***************************************************************************)
\* the business type of the columns that have an entry in the schema; a column
\* of a result that the schema does not know (an alias, "notes") has none
SchemaTypes ==
    [price |-> "currency", revenue |-> "number", region |-> "category",
     status |-> "category", order_date |-> "date"]

\* the columns whose cells are ints or floats
NumberColumns == {"price", "revenue"}

Range(seq) == {seq[i] : i \in 1..Len(seq)}

\* the cell of row i: a number; in a status column "active" for the first
\* `active` rows, None (SQL NULL) for the last `nulls` rows and "inactive"
\* between; else one of `distinct` texts in turn
Cell(col, i, shape) ==
    [number |-> col \in NumberColumns,
     none |-> col = "status" /\ i > shape.rows - shape.nulls,
     text |-> IF col \in NumberColumns THEN ToString(i)
              ELSE IF col = "status"
                   THEN (IF i <= shape.active THEN "active"
                         ELSE IF i > shape.rows - shape.nulls THEN ""
                         ELSE "inactive")
                   ELSE "v" \o ToString(((i - 1) % shape.distinct) + 1)]

\* the query result of a shape: data (a list of rows), columns, and the schema
ResultSet(shape) ==
    [columns |-> shape.columns,
     data |-> [i \in 1..shape.rows |-> [c \in Range(shape.columns) |-> Cell(c, i, shape)]],
     schema |-> [c \in Range(shape.columns) \cap DOMAIN SchemaTypes |->
                    [type |-> SchemaTypes[c]]]]

\* df[col].nunique(): None is not counted
nunique(data, col) ==
    Cardinality({data[i][col] : i \in {j \in 1..Len(data) : ~data[j][col].none}})

\* schema.get(col, {}).get('type', 'unknown')
ColType(schema, col) == IF col \in DOMAIN schema THEN schema[col].type ELSE "unknown"

\* VisualizationEngine._analyze_data_characteristics, the keys the selection reads
_analyze_data_characteristics(data, columns, schema) ==
    LET IsNumeric(c) == ColType(schema, c) \in {"number", "currency", "percentage"}
        IsCategorical(c) == /\ ColType(schema, c) \in {"category", "text"}
                            /\ nunique(data, c) <= 20
        IsDate(c) == ColType(schema, c) = "date"
    IN  [numeric_columns |-> SelectSeq(columns, IsNumeric),
         categorical_columns |-> SelectSeq(columns, IsCategorical),
         date_columns |-> SelectSeq(columns, IsDate),
         has_time_series |-> \E c \in Range(columns) : IsDate(c),
         cardinality |-> [c \in Range(columns) |-> nunique(data, c)]]

Min(S) == CHOOSE x \in S : \A y \in S : x <= y

\* VisualizationEngine._select_chart_type
_select_chart_type(analysis, q, intent_type, row_count, col_count) ==
    LET question_lower == Lower(q)
        numeric_cols == Len(analysis.numeric_columns)
        categorical_cols == Len(analysis.categorical_columns)
        unique_categories ==
            Min({analysis.cardinality[c] : c \in Range(analysis.categorical_columns)})
    IN  IF /\ AnyIn(<<"how many", "count", "total", "number of", "kpi">>, question_lower)
           /\ (Contains(question_lower, "active") \/ row_count <= 10)
        THEN "kpi"
        ELSE IF /\ AnyIn(<<"trend", "over time", "timeline", "historical">>, question_lower)
                /\ analysis.has_time_series
        THEN "line_chart"
        ELSE IF /\ AnyIn(<<"distribution", "spread", "histogram">>, question_lower)
                /\ numeric_cols >= 1
        THEN "histogram"
        ELSE IF /\ AnyIn(<<"compare", "comparison", "vs", "versus">>, question_lower)
                /\ categorical_cols >= 1
        THEN "bar_chart"
        ELSE IF /\ AnyIn(<<"percentage", "proportion", "share", "breakdown">>, question_lower)
                /\ categorical_cols >= 1
        THEN "pie_chart"
        ELSE IF /\ AnyIn(<<"correlation", "relationship", "scatter">>, question_lower)
                /\ numeric_cols >= 2
        THEN "scatter_plot"
        ELSE IF intent_type = "count" /\ categorical_cols >= 1 THEN "bar_chart"
        ELSE IF intent_type = "aggregation" /\ row_count = 1 THEN "metric_card"
        ELSE IF row_count = 1 /\ col_count = 1 THEN "metric_card"
        ELSE IF analysis.has_time_series /\ numeric_cols >= 1 THEN "line_chart"
        ELSE IF categorical_cols >= 1 /\ numeric_cols >= 1 /\ unique_categories <= 10
        THEN "bar_chart"
        ELSE IF categorical_cols >= 1 /\ row_count <= 10 THEN "pie_chart"
        ELSE IF numeric_cols >= 2 THEN "scatter_plot"
        ELSE IF numeric_cols = 1 THEN "histogram"
        ELSE IF row_count <= 100 THEN "data_table"
        ELSE "metric_card"

\* round(100 * k / n, 1) and the .1f format of it, in tenths of a percent: the
\* nearest tenth, a tie going to the even one
PercentTenths(k, n) ==
    LET q == (1000 * k) \div n
        r == (1000 * k) % n
    IN  IF 2 * r > n \/ (2 * r = n /\ q % 2 = 1) THEN q + 1 ELSE q

\* x.get('status', '').lower() raises on a row whose status is None
StatusRaises(data) ==
    \E i \in 1..Len(data) : "status" \in DOMAIN data[i] /\ data[i]["status"].none

\* sum(1 for row in rows if row.get('status', '').lower() == 'active')
ActiveCount(data) ==
    Cardinality({i \in 1..Len(data) :
                    "status" \in DOMAIN data[i] /\ Lower(data[i]["status"].text) = "active"})

\* a color of the configuration: the place it stands at and the kind of value
\* found there, a string taken from the theme or a function
ThemeColor(at) == [at |-> at, value |-> "string"]
ColorFunction(at) == [at |-> at, value |-> "callable"]

NoConfig ==
    [keys |-> {}, value |-> 0, label |-> "", total |-> 0, percentage |-> 0, raised |-> FALSE,
     colors |-> {}]

\* VisualizationEngine._generate_kpi_card; percentage in tenths of a percent
_generate_kpi_card(data, q) ==
    IF Contains(Lower(q), "active")
    THEN IF StatusRaises(data)
         THEN [NoConfig EXCEPT !.raised = TRUE]
         ELSE [keys |-> {"type", "value", "label", "total", "percentage", "color", "subtitle"},
               value |-> ActiveCount(data), label |-> "Active Users", total |-> Len(data),
               percentage |-> IF Len(data) > 0
                              THEN PercentTenths(ActiveCount(data), Len(data)) ELSE 0,
               raised |-> FALSE, colors |-> {ThemeColor("color")}]
    ELSE [keys |-> {"type", "value", "label", "color", "subtitle"},
          value |-> Len(data), label |-> "Total Records", total |-> 0, percentage |-> 0,
          raised |-> FALSE, colors |-> {ThemeColor("color")}]

\* the generators of the other chart types: the keys of the configuration and
\* the colors in it
_generate_metric_card ==
    [NoConfig EXCEPT !.keys = {"type", "data"}, !.colors = {ThemeColor("data.color")}]

_generate_bar_chart ==
    [NoConfig EXCEPT
        !.keys = {"title", "tooltip", "xAxis", "yAxis", "series", "backgroundColor"},
        !.colors = {ThemeColor("title.textStyle.color"), ThemeColor("xAxis.axisLabel.color"),
                    ThemeColor("yAxis.axisLabel.color"),
                    ThemeColor("series.itemStyle.color.colorStops"),
                    ThemeColor("series.emphasis.itemStyle.color"),
                    ThemeColor("backgroundColor")}]

\* "itemStyle": {"color": lambda params: theme["colorScheme"][...]}
_generate_pie_chart ==
    [NoConfig EXCEPT
        !.keys = {"title", "tooltip", "legend", "series", "backgroundColor"},
        !.colors = {ThemeColor("title.textStyle.color"), ThemeColor("legend.textStyle.color"),
                    ThemeColor("series.emphasis.itemStyle.shadowColor"),
                    ColorFunction("series.itemStyle.color"),
                    ThemeColor("backgroundColor")}]

\* one series, with its own color of the palette, for each of the first three
\* numeric columns
_generate_line_chart(analysis) ==
    [NoConfig EXCEPT
        !.keys = {"title", "tooltip", "legend", "xAxis", "yAxis", "series", "backgroundColor"},
        !.colors = {ThemeColor("title.textStyle.color"), ThemeColor("legend.textStyle.color"),
                    ThemeColor("xAxis.axisLabel.color"), ThemeColor("yAxis.axisLabel.color"),
                    ThemeColor("backgroundColor")}
                   \cup {ThemeColor("series.itemStyle.color") :
                            c \in Range(SubSeq(analysis.numeric_columns, 1,
                                               Min({3, Len(analysis.numeric_columns)})))}]

_generate_scatter_plot(analysis) ==
    IF Len(analysis.numeric_columns) < 2 THEN _generate_bar_chart
    ELSE [NoConfig EXCEPT
            !.keys = {"title", "tooltip", "xAxis", "yAxis", "series", "backgroundColor"},
            !.colors = {ThemeColor("title.textStyle.color"), ThemeColor("xAxis.axisLabel.color"),
                        ThemeColor("yAxis.axisLabel.color"), ThemeColor("series.itemStyle.color"),
                        ThemeColor("series.emphasis.itemStyle.color"),
                        ThemeColor("backgroundColor")}]

_generate_histogram ==
    [NoConfig EXCEPT
        !.keys = {"title", "tooltip", "xAxis", "yAxis", "series", "backgroundColor"},
        !.colors = {ThemeColor("title.textStyle.color"), ThemeColor("xAxis.axisLabel.color"),
                    ThemeColor("yAxis.axisLabel.color"), ThemeColor("series.itemStyle.color"),
                    ThemeColor("backgroundColor")}]

_generate_data_table ==
    [NoConfig EXCEPT !.keys = {"type", "columns", "data", "pagination", "scroll"}]

\* VisualizationEngine._generate_chart_config; the KPI card with its numbers,
\* the other configurations with their keys and colors
_generate_chart_config(data, chart_type, analysis, q) ==
    CASE chart_type = "metric_card" -> _generate_metric_card
      [] chart_type = "kpi" -> _generate_kpi_card(data, q)
      [] chart_type = "bar_chart" -> _generate_bar_chart
      [] chart_type = "pie_chart" -> _generate_pie_chart
      [] chart_type = "line_chart" -> _generate_line_chart(analysis)
      [] chart_type = "scatter_plot" -> _generate_scatter_plot(analysis)
      [] chart_type = "histogram" -> _generate_histogram
      [] chart_type = "data_table" -> _generate_data_table
      [] OTHER -> _generate_bar_chart

\* df.isnull().sum().sum()
MissingCells(data, columns) ==
    Cardinality({<<i, c>> \in (1..Len(data)) \X Range(columns) : data[i][c].none})

\* VisualizationEngine._generate_chart_insights: one name for each string
\* appended to the list, in the order of the appends
_generate_chart_insights(data, columns, chart_type, analysis) ==
    LET of_chart ==
            CASE chart_type = "metric_card" -> <<"single_value_analysis", "how_to_use">>
              [] chart_type = "kpi" -> <<"kpi_dashboard", "statistical_context">>
              [] chart_type = "bar_chart" ->
                    IF analysis.categorical_columns # <<>>
                    THEN <<"distribution_analysis", "statistical_insight">> ELSE <<>>
              [] chart_type = "pie_chart" ->
                    IF analysis.categorical_columns # <<>>
                    THEN <<"proportional_analysis", "best_for">>
                         \o (IF nunique(data, analysis.categorical_columns[1]) > 10
                             THEN <<"top_10_note">> ELSE <<>>)
                    ELSE <<>>
              [] chart_type = "line_chart" ->
                    <<"trend_analysis", "look_for">>
                    \o (IF Len(analysis.numeric_columns) > 1
                        THEN <<"multi_metric_view", "correlation_clues">> ELSE <<>>)
              [] chart_type = "scatter_plot" ->
                    IF Len(analysis.numeric_columns) >= 2
                    THEN <<"correlation_analysis", "pattern_recognition", "statistical_meaning">>
                    ELSE <<>>
              [] chart_type = "histogram" ->
                    IF analysis.numeric_columns # <<>>
                       /\ \E i \in 1..Len(data) : ~data[i][analysis.numeric_columns[1]].none
                    THEN <<"distribution_shape", "central_tendency", "shape_insight">>
                    ELSE <<>>
              [] OTHER -> <<>>
        missing_data == MissingCells(data, columns)
        total_cells == Len(data) * Len(columns)
        of_quality ==
            IF missing_data > 0
            THEN <<"data_quality",
                   IF missing_data * 100 > 10 * total_cells THEN "consider"
                   ELSE IF missing_data * 100 > 5 * total_cells THEN "note"
                   ELSE "excellent">>
            ELSE <<"perfect_data_quality">>
    IN  of_chart \o of_quality \o <<"sample_size_note">>

NoAnswer ==
    [kind |-> "", active_count |-> 0, total_count |-> 0, inactive_count |-> 0,
     active_percent |-> 0, inactive_percent |-> 0]

\* EnhancedLLMService._generate_metrics_answer on a count question about
\* 'active': the numbers written into the text, percentages in tenths
_generate_metrics_answer(q, data) ==
    IF StatusRaises(data)
    THEN [NoAnswer EXCEPT !.kind = "raised"]
    ELSE [kind |-> "user_activity",
          active_count |-> ActiveCount(data),
          total_count |-> Len(data),
          inactive_count |-> Len(data) - ActiveCount(data),
          active_percent |-> PercentTenths(ActiveCount(data), Len(data)),
          inactive_percent |-> PercentTenths(Len(data) - ActiveCount(data), Len(data))]

\* EnhancedLLMService.generate_business_answer: the user activity text for a
\* count question about 'active'; the other texts carry no numbers of the model
generate_business_answer(q, data) ==
    IF data = <<>> THEN [NoAnswer EXCEPT !.kind = "no_data"]
    ELSE IF AnyIn(<<"how many", "count">>, Lower(q)) /\ Contains(Lower(q), "active")
    THEN _generate_metrics_answer(q, data)
    ELSE [NoAnswer EXCEPT !.kind = "other"]

\* VisualizationEngine.generate_visualization: the "type" of the object returned
generate_visualization(data, columns, q, schema, intent_type) ==
    IF data = <<>> \/ columns = <<>>
    THEN "empty"
    ELSE _select_chart_type(_analyze_data_characteristics(data, columns, schema),
                            q, intent_type, Len(data), Len(columns))

(***************************************************************************)
(* QueryEngine: the chart suggestion of the plain query service.           *)
(***************************************************************************)
_is_count_question(q) == AnyIn(<<"how many", "count", "number of", "total">>, Lower(q))

_is_aggregation_question(q) ==
    AnyIn(<<"average", "avg", "sum", "total", "maximum", "max", "minimum", "min">>, Lower(q))

\* more than 70% of the first ten items are numbers
_is_numeric_data(data_list) ==
    LET head == SubSeq(data_list, 1, IF Len(data_list) < 10 THEN Len(data_list) ELSE 10)
        numeric_count == Cardinality({i \in 1..Len(head) : head[i].number /\ ~head[i].none})
    IN  data_list # <<>> /\ numeric_count * 10 > Len(head) * 7

ColumnData(data, col) == [i \in 1..Len(data) |-> data[i][col]]

_has_date_column(columns, schema) ==
    \E c \in Range(columns) :
        \/ ColType(schema, c) = "date"
        \/ AnyIn(<<"date", "time", "created", "updated">>, Lower(c))

\* the first date column
_find_date_column(columns, schema) ==
    LET IsDate(c) == \/ ColType(schema, c) = "date"
                     \/ AnyIn(<<"date", "time", "created", "updated">>, Lower(c))
    IN  SelectSeq(columns, IsDate)[1]

\* QueryEngine._analyze_and_suggest_chart: the "type" of the object returned
_analyze_and_suggest_chart(data, columns, q, schema) ==
    LET num_columns == Len(columns)
        num_rows == Len(data)
        question_lower == Lower(q)
        first_is_numeric == _is_numeric_data(ColumnData(data, columns[1]))
        second_is_numeric == _is_numeric_data(ColumnData(data, columns[2]))
        unique_categories == nunique(data, columns[1])
        date_col == _find_date_column(columns, schema)
        NumericOther(c) == c # date_col /\ _is_numeric_data(ColumnData(data, c))
    IN  IF num_rows = 1 /\ num_columns = 1
        THEN IF _is_count_question(q) \/ _is_aggregation_question(q)
             THEN "metric"
             ELSE "table"
        ELSE IF num_columns = 2
        THEN IF ~first_is_numeric /\ second_is_numeric
             THEN IF /\ unique_categories <= 8
                     /\ (\/ Contains(question_lower, "distribution")
                         \/ Contains(question_lower, "breakdown"))
                  THEN "pie"
                  ELSE "bar"
             ELSE IF first_is_numeric /\ ~second_is_numeric THEN "bar"
             ELSE IF first_is_numeric /\ second_is_numeric THEN "scatter"
             ELSE "table"
        ELSE IF _has_date_column(columns, schema)
                /\ SelectSeq(columns, NumericOther) # <<>>
        THEN "line"
        ELSE "table"

\* QueryEngine.suggest_visualization: the type suggested, "none" for None
suggest_visualization(data, columns, q, schema) ==
    IF data = <<>> \/ columns = <<>>
    THEN "none"
    ELSE _analyze_and_suggest_chart(data, columns, q, schema)

(***************************************************************************)
(* Calls of generate_visualization on the shared visualization_engine.     *)
(***************************************************************************)
\* the callers that use the engine at the same time
Runs == {"r1", "r2"}

Shape(columns, rows, distinct, active, nulls) ==
    [columns |-> columns, rows |-> rows, distinct |-> distinct, active |-> active,
     nulls |-> nulls]

\* row counts around the thresholds of the selection (1, 10, 100)
VizRowCounts == {0, 1, 5, 11, 101}

\* results without a categorical column
PlainColumns ==
    {<<"price">>, <<"order_date">>, <<"notes">>, <<"price", "revenue">>,
     <<"order_date", "revenue">>, <<"notes", "order_date">>}

\* results with a categorical column, of 5, 11 or 21 distinct values
CategoryColumns == {<<"region">>, <<"region", "revenue">>, <<"region", "notes">>}

\* results with a status column: (rows, active rows, rows of NULL status)
StatusCounts ==
    {<<1, 1, 0>>, <<1, 0, 0>>, <<3, 1, 0>>, <<3, 2, 0>>, <<16, 1, 0>>, <<100, 70, 0>>,
     <<3, 1, 1>>, <<100, 70, 1>>}

StatusShapes == {Shape(<<"status">>, c[1], 5, c[2], c[3]) : c \in StatusCounts}

ResultShapes ==
    StatusShapes \cup
    {Shape(cols, n, 5, 0, 0) : cols \in PlainColumns \cup CategoryColumns, n \in VizRowCounts}
    \cup {Shape(cols, n, d, 0, 0) : cols \in CategoryColumns, n \in {101}, d \in {11, 21}}
    \cup {Shape(cols, 11, 11, 0, 0) : cols \in CategoryColumns}

VizQuestions ==
    {"show status",
     "How many active users are there?",
     "total sales breakdown by region",
     "sales breakdown by region",
     "price distribution",
     "histogram of price",
     "compare regions",
     "sales trend",
     "scatter of price and revenue",
     "correlation of price and revenue"}

\* the values of EnhancedQueryProcessor._analyze_query_intent
VizIntents ==
    {"count", "comparison", "trend", "distribution", "ranking", "aggregation",
     "filter", "general"}

NoRequest == [shape |-> Shape(<<>>, 0, 0, 0, 0), question |-> "", intent_type |-> ""]

NoAnalysis ==
    [numeric_columns |-> <<>>, categorical_columns |-> <<>>, date_columns |-> <<>>,
     has_time_series |-> FALSE, cardinality |-> <<>>]

\* a caller's request with what the two services answered: chart_type from
\* VisualizationEngine.generate_visualization, suggestion from
\* QueryEngine.suggest_visualization ("" while not asked), answer from
\* EnhancedLLMService.generate_business_answer (kind "" while not asked)
NoCall ==
    [pc |-> "idle", request |-> NoRequest, analysis |-> NoAnalysis, chart_type |-> "",
     config |-> NoConfig, insights |-> <<>>, suggestion |-> "", answer |-> NoAnswer]

\* the analysis of every result, computed once
data_analysis ==
    [s \in ResultShapes |->
        LET rs == ResultSet(s)
        IN  _analyze_data_characteristics(rs.data, rs.columns, rs.schema)]

\* generate_visualization is called
VizCall(r, shape, q, intent_type) ==
    /\ viz_calls[r].pc = "idle"
    /\ viz_calls' = [viz_calls EXCEPT ![r] =
           [pc |-> IF shape.rows = 0 \/ shape.columns = <<>> THEN "returned" ELSE "called",
            request |-> [shape |-> shape, question |-> q, intent_type |-> intent_type],
            analysis |-> NoAnalysis,
            chart_type |-> IF shape.rows = 0 \/ shape.columns = <<>> THEN "empty" ELSE "",
            config |-> NoConfig,
            insights |-> IF shape.rows = 0 \/ shape.columns = <<>>
                         THEN <<"no_data_available">> ELSE <<>>,
            suggestion |-> "", answer |-> NoAnswer]]
    /\ UNCHANGED <<run_vars, memory>>

\* data_analysis = self._analyze_data_characteristics(df, schema)
VizAnalyze(r) ==
    /\ viz_calls[r].pc = "called"
    /\ viz_calls' = [viz_calls EXCEPT ![r].pc = "analyzed",
                                      ![r].analysis = data_analysis[viz_calls[r].request.shape]]
    /\ UNCHANGED <<run_vars, memory>>

\* a selection that reads the analysis last stored on the shared engine
VizSelectShared(r) ==
    /\ viz_calls[r].pc = "analyzed"
    /\ \E o \in Runs :
        /\ viz_calls[o].pc \in {"analyzed", "returned"}
        /\ \A x \in Runs \ {r} : viz_calls[x].pc \in {"analyzed", "returned"} => o = x
        /\ viz_calls' = [viz_calls EXCEPT
              ![r].pc = "returned",
              ![r].chart_type =
                  IF viz_calls[o].request.shape.rows = 0 THEN "empty"
                  ELSE _select_chart_type(viz_calls[o].analysis,
                                          viz_calls[r].request.question,
                                          viz_calls[r].request.intent_type,
                                          viz_calls[r].request.shape.rows,
                                          Len(viz_calls[r].request.shape.columns))]
    /\ UNCHANGED <<run_vars, memory>>

\* chart_type = self._select_chart_type(...), the configuration of the chart,
\* the insights, and the object is returned unless the configuration raises
VizSelect(r) ==
    /\ viz_calls[r].pc = "analyzed"
    /\ LET request == viz_calls[r].request
           chart == _select_chart_type(viz_calls[r].analysis, request.question,
                                       request.intent_type, request.shape.rows,
                                       Len(request.shape.columns))
           rs == ResultSet(request.shape)
           config == _generate_chart_config(rs.data, chart, viz_calls[r].analysis,
                                            request.question)
       IN  viz_calls' = [viz_calls EXCEPT
              ![r].pc = IF config.raised THEN "raised" ELSE "returned",
              ![r].chart_type = IF config.raised THEN "" ELSE chart,
              ![r].config = config,
              ![r].insights = IF config.raised THEN <<>>
                              ELSE _generate_chart_insights(rs.data, rs.columns, chart,
                                                            viz_calls[r].analysis)]
    /\ UNCHANGED <<run_vars, memory>>

\* the same result and question handed to QueryEngine.suggest_visualization
QuerySuggest(r) ==
    /\ viz_calls[r].pc = "returned"
    /\ viz_calls[r].suggestion = ""
    /\ LET rs == ResultSet(viz_calls[r].request.shape)
       IN  viz_calls' = [viz_calls EXCEPT ![r].suggestion =
               suggest_visualization(rs.data,
                                     IF rs.data = <<>> THEN <<>> ELSE rs.columns,
                                     viz_calls[r].request.question, rs.schema)]
    /\ UNCHANGED <<run_vars, memory>>

\* the same result and question handed to generate_business_answer
BusinessAnswer(r) ==
    /\ viz_calls[r].pc \in {"returned", "raised"}
    /\ viz_calls[r].answer.kind = ""
    /\ viz_calls' = [viz_calls EXCEPT ![r].answer =
           generate_business_answer(viz_calls[r].request.question,
                                    ResultSet(viz_calls[r].request.shape).data)]
    /\ UNCHANGED <<run_vars, memory>>

\* the caller drops the object or the exception
VizForget(r) ==
    /\ viz_calls[r].pc \in {"returned", "raised"}
    /\ viz_calls' = [viz_calls EXCEPT ![r] = NoCall]
    /\ UNCHANGED <<run_vars, memory>>

(***************************************************************************)
(* Initial state: no run in progress.                                      *)
(***************************************************************************)
(***************************************************************************)
(* ConversationMemoryService: Redis with an in-memory fallback.            *)
(***************************************************************************)
\* self.max_history_length
max_history_length == 20

\* add_message is called up to max_history_length + ExtraMessages times on a
\* conversation
ExtraMessages == 2

ConversationKeys == {"k1", "k2"}

\* last_n_messages of get_conversation_history
HistoryLengths == {0, 1, 5, 10, 25}

\* a call of the service: outcome "returned" or "raised"; answer names what
\* was returned ("id", "True", "False", "list", "context", "empty"), value is
\* the message list in it
NoCallResult == [op |-> "", id |-> "", n |-> 0, outcome |-> "", answer |-> "", value |-> <<>>]

\* no service yet; `fallback` tells whether the attribute self.conversations
\* exists, `redis` is the content of the Redis server, `added` counts the
\* messages accepted for each conversation, a message being its number
NoMemory ==
    [constructed |-> FALSE, use_redis |-> FALSE, fallback |-> FALSE,
     redis |-> <<>>, conversations |-> <<>>, created |-> {}, added |-> <<>>,
     result |-> NoCallResult]

\* messages[-n:]
LastSlice(messages, n) ==
    IF n = 0 THEN messages
    ELSE SubSeq(messages, IF n >= Len(messages) THEN 1 ELSE Len(messages) - n + 1,
                Len(messages))

\* ConversationMemoryService._load_conversation; redis_ok tells whether the
\* Redis call answers. self.conversations.get raises AttributeError when the
\* attribute was never created.
_load_conversation(m, id, redis_ok) ==
    IF m.use_redis /\ redis_ok /\ id \in DOMAIN m.redis
    THEN [kind |-> "found", messages |-> m.redis[id]]
    ELSE IF ~m.fallback THEN [kind |-> "raised", messages |-> <<>>]
    ELSE IF id \in DOMAIN m.conversations
    THEN [kind |-> "found", messages |-> m.conversations[id]]
    ELSE [kind |-> "none", messages |-> <<>>]

\* ConversationMemoryService._store_conversation: the service after the call,
\* and whether the call raised
_store_conversation(m, id, messages, redis_ok) ==
    IF m.use_redis /\ redis_ok
    THEN [raised |-> FALSE, memory |-> [m EXCEPT !.redis = With(m.redis, id, messages)]]
    ELSE IF ~m.fallback THEN [raised |-> TRUE, memory |-> m]
    ELSE [raised |-> FALSE,
          memory |-> [m EXCEPT !.conversations = With(m.conversations, id, messages)]]

CallResult(op, id, n, answer, value) ==
    [op |-> op, id |-> id, n |-> n, outcome |-> "returned", answer |-> answer, value |-> value]

\* the call ends with the AttributeError of self.conversations
CallRaised(op, id, n) ==
    [op |-> op, id |-> id, n |-> n, outcome |-> "raised", answer |-> "", value |-> <<>>]

\* ConversationMemoryService.__init__; redis_ok tells whether the ping answers
MemoryConstruct(redis_ok) ==
    /\ ~memory.constructed
    /\ memory' = [memory EXCEPT !.constructed = TRUE, !.use_redis = redis_ok,
                                !.fallback = ~redis_ok,
                                !.result = CallResult("__init__", "", 0, "", <<>>)]
    /\ UNCHANGED <<run_vars, viz_calls>>

\* create_conversation: a fresh id, stored with an empty message list
CreateConversation(id, redis_ok) ==
    /\ memory.constructed /\ id \notin memory.created
    /\ LET stored == _store_conversation(memory, id, <<>>, redis_ok)
       IN  memory' = [stored.memory EXCEPT
               !.created = IF stored.raised THEN @ ELSE @ \cup {id},
               !.added = IF stored.raised THEN @ ELSE With(@, id, 0),
               !.result = IF stored.raised THEN CallRaised("create_conversation", id, 0)
                          ELSE CallResult("create_conversation", id, 0, "id", <<>>)]
    /\ UNCHANGED <<run_vars, viz_calls>>

\* add_message: load, append, keep the last max_history_length, store
AddMessage(id, load_ok, store_ok) ==
    /\ memory.constructed
    /\ id \in DOMAIN memory.added => memory.added[id] < max_history_length + ExtraMessages
    /\ LET conversation == _load_conversation(memory, id, load_ok)
           number == IF id \in DOMAIN memory.added THEN memory.added[id] + 1 ELSE 1
           appended == Append(conversation.messages, number)
           messages == IF Len(appended) > max_history_length
                       THEN LastSlice(appended, max_history_length) ELSE appended
           stored == _store_conversation(memory, id, messages, store_ok)
       IN  memory' =
             IF conversation.kind = "raised"
             THEN [memory EXCEPT !.result = CallRaised("add_message", id, 0)]
             ELSE IF conversation.kind = "none"
             THEN [memory EXCEPT !.result = CallResult("add_message", id, 0, "False", <<>>)]
             ELSE IF stored.raised
             THEN [memory EXCEPT !.result = CallRaised("add_message", id, 0)]
             ELSE [stored.memory EXCEPT
                      !.added = With(@, id, number),
                      !.result = CallResult("add_message", id, 0, "True", <<>>)]
    /\ UNCHANGED <<run_vars, viz_calls>>

\* get_conversation_history(conversation_id, last_n_messages)
get_conversation_history(m, id, n, redis_ok) ==
    LET conversation == _load_conversation(m, id, redis_ok)
    IN  IF conversation.kind = "raised" THEN CallRaised("get_conversation_history", id, n)
        ELSE IF conversation.kind = "none" \/ conversation.messages = <<>>
        THEN CallResult("get_conversation_history", id, n, "list", <<>>)
        ELSE CallResult("get_conversation_history", id, n, "list",
                        LastSlice(conversation.messages, n))

GetConversationHistory(id, n, redis_ok) ==
    /\ memory.constructed
    /\ memory' = [memory EXCEPT !.result = get_conversation_history(memory, id, n, redis_ok)]
    /\ UNCHANGED <<run_vars, viz_calls>>

\* get_conversation_context: its own load, then the last five messages as the
\* recent_messages of the context; {} when the conversation is not found
GetConversationContext(id, load_ok, history_ok) ==
    /\ memory.constructed
    /\ LET conversation == _load_conversation(memory, id, load_ok)
           recent == get_conversation_history(memory, id, 5, history_ok)
       IN  memory' = [memory EXCEPT !.result =
               IF conversation.kind = "raised"
               THEN CallRaised("get_conversation_context", id, 0)
               ELSE IF conversation.kind = "none"
               THEN CallResult("get_conversation_context", id, 0, "empty", <<>>)
               ELSE IF recent.outcome = "raised"
               THEN CallRaised("get_conversation_context", id, 0)
               ELSE CallResult("get_conversation_context", id, 0, "context", recent.value)]
    /\ UNCHANGED <<run_vars, viz_calls>>

\* the entry of a conversation expires on the Redis server
RedisExpire(id) ==
    /\ id \in DOMAIN memory.redis
    /\ memory' = [memory EXCEPT !.redis = Without(@, id),
                                !.result = CallResult("expire", id, 0, "", <<>>)]
    /\ UNCHANGED <<run_vars, viz_calls>>

Init ==
    /\ engine = "none"
    /\ pc = "idle"
    /\ question = ""
    /\ dataset_id = ""
    /\ dataset = NoDataset
    /\ intent_analysis = NoIntent
    /\ sql_query = ""
    /\ origin = "none"
    /\ guard = "unchecked"
    /\ fallbacks = 0
    /\ gen_outcome = "none"
    /\ executed = <<>>
    /\ query_results = NoResults
    /\ visualization = "none"
    /\ events = <<>>
    /\ raised = "none"
    /\ fail_at = 0
    /\ ret = NoReturn
    /\ user_id = ""
    /\ active_connections = <<>>
    /\ user_sessions = <<>>
    /\ handlers = [s \in Sockets |-> NoHandler]
    /\ send_failed = FALSE
    /\ viz_calls = [r \in Runs |-> NoCall]
    /\ memory = NoMemory

(***************************************************************************)
(* EnhancedQueryProcessor.process_query_with_updates                       *)
(***************************************************************************)
ConversationalReturn ==
    [keys |-> {"success", "question", "answer", "sql", "results", "visualization", "metadata"},
     success |-> "true", error |-> ""]

SuccessReturn ==
    [keys |-> {"success", "question", "answer", "sql", "results", "visualization", "metadata"},
     success |-> "true", error |-> ""]

FailureReturn(msg) ==
    [keys |-> {"success", "question", "error", "answer"}, success |-> "false", error |-> msg]

\* an except clause that returns the failure object without the failed event
HandleExceptionSilently(stage, msg) ==
    /\ events' = events
    /\ ret' = FailureReturn(msg)
    /\ raised' = stage
    /\ fail_at' = Len(events)
    /\ pc' = "done"
    /\ UNCHANGED <<active_connections, user_sessions, handlers, send_failed>>
    /\ UNCHANGED <<viz_calls, memory>>

\* the except clause: a failed event, then the failure object
HandleException(stage, msg) ==
    /\ events' = Emit(events, "failed", 0)
    /\ ret' = FailureReturn(msg)
    /\ raised' = stage
    /\ fail_at' = Len(events)
    /\ pc' = "done"
    /\ Deliver(user_id)
    /\ UNCHANGED <<viz_calls, memory>>

ProcessQueryStart(q, d, u) ==
    /\ pc = "idle"
    /\ engine' = "enhanced"
    /\ question' = q
    /\ dataset_id' = d
    /\ IF _is_conversational_message(q)
       THEN /\ events' = Emit(events, "completed", 100)
            /\ ret' = ConversationalReturn
            /\ pc' = "done"
       ELSE /\ events' = Emit(events, "analyzing", 10)
            /\ ret' = ret
            /\ pc' = "get_dataset"
    /\ UNCHANGED <<dataset, intent_analysis, sql_query, origin, guard, fallbacks,
                   gen_outcome, executed, query_results, visualization, raised, fail_at>>
    /\ user_id' = u
    /\ Deliver(u)
    /\ UNCHANGED <<viz_calls, memory>>

\* db.get(Dataset) and db.get(DataSource) both answer with a row
GetDatasetFound ==
    /\ engine = "enhanced" /\ pc = "get_dataset"
    /\ dataset_id \in DOMAIN Datasets
    /\ Datasets[dataset_id].has_source
    /\ dataset' = Datasets[dataset_id]
    /\ events' = Emit(events, "generating_sql", 30)
    /\ intent_analysis' = question_intent[question, dataset_id]
    /\ pc' = "call_ollama"
    /\ UNCHANGED <<engine, question, dataset_id, sql_query, origin, guard, fallbacks,
                   gen_outcome, executed, query_results, visualization, raised, fail_at, ret>>
    /\ Deliver(user_id)
    /\ UNCHANGED user_id
    /\ UNCHANGED <<viz_calls, memory>>

\* no Dataset row, or no DataSource row: ValueError
GetDatasetMissing ==
    /\ engine = "enhanced" /\ pc = "get_dataset"
    /\ \/ /\ dataset_id \notin DOMAIN Datasets
          /\ HandleException("lookup", "Dataset not found")
       \/ /\ dataset_id \in DOMAIN Datasets
          /\ ~Datasets[dataset_id].has_source
          /\ HandleException("lookup", "Data source not found")
    /\ UNCHANGED <<engine, question, dataset_id, dataset, intent_analysis, sql_query, origin,
                   guard, fallbacks, gen_outcome, executed, query_results, visualization>>
    /\ UNCHANGED user_id

\* the store fails during the lookup
GetDatasetRaise ==
    /\ engine = "enhanced" /\ pc = "get_dataset"
    /\ HandleException("lookup", "database error")
    /\ UNCHANGED <<engine, question, dataset_id, dataset, intent_analysis, sql_query, origin,
                   guard, fallbacks, gen_outcome, executed, query_results, visualization>>
    /\ UNCHANGED user_id

\* _generate_business_sql, the collaborator answers: clean the text
CallOllamaReturn(text) ==
    /\ engine = "enhanced" /\ pc = "call_ollama"
    /\ gen_outcome' = "text"
    /\ sql_query' = cleaned_sql[text, intent_analysis]
    /\ origin' = "generated"
    /\ events' = Emit(events, "executing", 50)
    /\ pc' = "execute_sql"
    /\ UNCHANGED <<engine, question, dataset_id, dataset, intent_analysis, guard, fallbacks,
                   executed, query_results, visualization, raised, fail_at, ret>>
    /\ Deliver(user_id)
    /\ UNCHANGED user_id
    /\ UNCHANGED <<viz_calls, memory>>

\* a planner that lets the generation error reach the processor's handler
CallOllamaFailSurfaced ==
    /\ engine = "enhanced" /\ pc = "call_ollama"
    /\ gen_outcome' = "error"
    /\ events' = Emit(events, "failed", 0)
    /\ ret' = FailureReturn("Could not connect to LLM service")
    /\ raised' = "generate"
    /\ fail_at' = Len(events)
    /\ pc' = "done"
    /\ UNCHANGED <<engine, question, dataset_id, dataset, intent_analysis, sql_query, origin,
                   guard, fallbacks, executed, query_results, visualization>>
    /\ Deliver(user_id)
    /\ UNCHANGED user_id
    /\ UNCHANGED <<viz_calls, memory>>

\* _generate_business_sql, _call_ollama raises (timeout after 45 s, connection
\* error, status other than 200): the fallback template
CallOllamaFail ==
    /\ engine = "enhanced" /\ pc = "call_ollama"
    /\ gen_outcome' = "error"
    /\ sql_query' = fallback_sql[question, dataset_id]
    /\ origin' = "fallback"
    /\ fallbacks' = fallbacks + 1
    /\ events' = Emit(events, "executing", 50)
    /\ pc' = "execute_sql"
    /\ UNCHANGED <<engine, question, dataset_id, dataset, intent_analysis, guard,
                   executed, query_results, visualization, raised, fail_at, ret>>
    /\ Deliver(user_id)
    /\ UNCHANGED user_id
    /\ UNCHANGED <<viz_calls, memory>>

\* _execute_sql_query hands the text to the store
ExecuteSqlQuery ==
    /\ engine = "enhanced" /\ pc = "execute_sql"
    /\ executed' = Append(executed, sql_query)
    /\ pc' = "db_execute"
    /\ UNCHANGED <<engine, question, dataset_id, dataset, intent_analysis, sql_query, origin,
                   guard, fallbacks, gen_outcome, query_results, visualization, events,
                   raised, fail_at, ret>>
    /\ UNCHANGED <<user_id, active_connections, user_sessions, handlers, send_failed>>
    /\ UNCHANGED <<viz_calls, memory>>

\* a processor whose analyzing_results update reports less than the stage before
DbExecuteReturnRegressing(size) ==
    /\ engine = "enhanced" /\ pc = "db_execute"
    /\ LET n == RowsReturned(executed[Len(executed)], size)
       IN  query_results' = [keys |-> {"data", "columns", "row_count"},
                             row_count |-> n, raw_rows |-> n, truncated |-> "absent",
                             returned |-> TRUE]
    /\ events' = Emit(events, "analyzing_results", 40)
    /\ pc' = "generate_answer"
    /\ UNCHANGED <<engine, question, dataset_id, dataset, intent_analysis, sql_query, origin,
                   guard, fallbacks, gen_outcome, executed, visualization, raised, fail_at, ret>>
    /\ Deliver(user_id)
    /\ UNCHANGED user_id
    /\ UNCHANGED <<viz_calls, memory>>

\* the store answers with rows: the results and the analyzing_results update
DbExecuteReturn(size) ==
    /\ engine = "enhanced" /\ pc = "db_execute"
    /\ LET n == RowsReturned(executed[Len(executed)], size)
       IN  query_results' = [keys |-> {"data", "columns", "row_count"},
                             row_count |-> n, raw_rows |-> n, truncated |-> "absent",
                             returned |-> TRUE]
    /\ events' = Emit(events, "analyzing_results", 70)
    /\ pc' = "generate_answer"
    /\ UNCHANGED <<engine, question, dataset_id, dataset, intent_analysis, sql_query, origin,
                   guard, fallbacks, gen_outcome, executed, visualization, raised, fail_at, ret>>
    /\ Deliver(user_id)
    /\ UNCHANGED user_id
    /\ UNCHANGED <<viz_calls, memory>>

\* the store raises: "Database query failed"
DbExecuteRaise ==
    /\ engine = "enhanced" /\ pc = "db_execute"
    /\ HandleException("execute", "Database query failed")
    /\ UNCHANGED <<engine, question, dataset_id, dataset, intent_analysis, sql_query, origin,
                   guard, fallbacks, gen_outcome, executed, query_results, visualization>>
    /\ UNCHANGED user_id

\* generate_business_answer returns: the creating_visualization update
GenerateAnswer ==
    /\ engine = "enhanced" /\ pc = "generate_answer"
    /\ events' = Emit(events, "creating_visualization", 85)
    /\ pc' = "visualize"
    /\ UNCHANGED <<engine, question, dataset_id, dataset, intent_analysis, sql_query, origin,
                   guard, fallbacks, gen_outcome, executed, query_results, visualization,
                   raised, fail_at, ret>>
    /\ Deliver(user_id)
    /\ UNCHANGED user_id
    /\ UNCHANGED <<viz_calls, memory>>

\* generate_business_answer raises on rows it cannot digest (a NULL status in
\* _generate_metrics_answer)
GenerateAnswerRaise ==
    /\ engine = "enhanced" /\ pc = "generate_answer"
    /\ query_results.row_count > 0
    /\ HandleException("answer", "answer error")
    /\ UNCHANGED <<engine, question, dataset_id, dataset, intent_analysis, sql_query, origin,
                   guard, fallbacks, gen_outcome, executed, query_results, visualization>>
    /\ UNCHANGED user_id

GenerateVisualization ==
    /\ engine = "enhanced" /\ pc = "visualize"
    /\ visualization' = "built"
    /\ pc' = "finish"
    /\ UNCHANGED <<engine, question, dataset_id, dataset, intent_analysis, sql_query, origin,
                   guard, fallbacks, gen_outcome, executed, query_results, events,
                   raised, fail_at, ret>>
    /\ UNCHANGED <<user_id, active_connections, user_sessions, handlers, send_failed>>
    /\ UNCHANGED <<viz_calls, memory>>

\* generate_visualization has no handler of its own: building a chart from rows
\* it cannot digest (a NULL status in _generate_kpi_card) raises
GenerateVisualizationRaise ==
    /\ engine = "enhanced" /\ pc = "visualize"
    /\ query_results.row_count > 0
    /\ HandleException("visualize", "visualization error")
    /\ UNCHANGED <<engine, question, dataset_id, dataset, intent_analysis, sql_query, origin,
                   guard, fallbacks, gen_outcome, executed, query_results, visualization>>
    /\ UNCHANGED user_id

\* a processor that reports completion twice
CompleteTwice ==
    /\ engine = "enhanced" /\ pc = "finish"
    /\ events' = Emit(Emit(events, "completed", 100), "completed", 100)
    /\ ret' = SuccessReturn
    /\ pc' = "done"
    /\ UNCHANGED <<engine, question, dataset_id, dataset, intent_analysis, sql_query, origin,
                   guard, fallbacks, gen_outcome, executed, query_results, visualization,
                   raised, fail_at>>
    /\ Deliver(user_id)
    /\ UNCHANGED user_id
    /\ UNCHANGED <<viz_calls, memory>>

\* a processor whose except clause also runs after the completion update
CompleteThenFail ==
    /\ engine = "enhanced" /\ pc = "finish"
    /\ events' = Emit(Emit(events, "completed", 100), "failed", 0)
    /\ ret' = FailureReturn("late failure")
    /\ pc' = "done"
    /\ UNCHANGED <<engine, question, dataset_id, dataset, intent_analysis, sql_query, origin,
                   guard, fallbacks, gen_outcome, executed, query_results, visualization,
                   raised, fail_at>>
    /\ Deliver(user_id)
    /\ UNCHANGED user_id
    /\ UNCHANGED <<viz_calls, memory>>

\* the completion event and the final result
Complete ==
    /\ engine = "enhanced" /\ pc = "finish"
    /\ events' = Emit(events, "completed", 100)
    /\ ret' = SuccessReturn
    /\ pc' = "done"
    /\ UNCHANGED <<engine, question, dataset_id, dataset, intent_analysis, sql_query, origin,
                   guard, fallbacks, gen_outcome, executed, query_results, visualization,
                   raised, fail_at>>
    /\ Deliver(user_id)
    /\ UNCHANGED user_id
    /\ UNCHANGED <<viz_calls, memory>>

(***************************************************************************)
(* AdaptiveQueryEngine.process_natural_language_query                      *)
(***************************************************************************)
AdaptiveSuccessReturn ==
    [keys |-> {"success", "question", "answer", "sql", "results", "visualization", "intent"},
     success |-> "true", error |-> ""]

\* the outer except clause
AdaptiveFailureReturn(msg) ==
    [keys |-> {"success", "error", "question"}, success |-> "false", error |-> msg]

\* `return {'error': 'Dataset not found'}`
AdaptiveNotFoundReturn ==
    [keys |-> {"error"}, success |-> "absent", error |-> "Dataset not found"]

ProcessNaturalLanguageQuery(q, d) ==
    /\ pc = "idle"
    /\ engine' = "adaptive"
    /\ question' = q
    /\ dataset_id' = d
    /\ pc' = "get_context"
    /\ UNCHANGED <<dataset, intent_analysis, sql_query, origin, guard, fallbacks, gen_outcome,
                   executed, query_results, visualization, events, raised, fail_at, ret>>
    /\ UNCHANGED <<user_id, active_connections, user_sessions, handlers, send_failed>>
    /\ UNCHANGED <<viz_calls, memory>>

GetDatasetContextFound ==
    /\ engine = "adaptive" /\ pc = "get_context"
    /\ dataset_id \in DOMAIN Datasets
    /\ dataset' = Datasets[dataset_id]
    /\ pc' = "analyze_intent"
    /\ UNCHANGED <<engine, question, dataset_id, intent_analysis, sql_query, origin, guard,
                   fallbacks, gen_outcome, executed, query_results, visualization, events,
                   raised, fail_at, ret>>
    /\ UNCHANGED <<user_id, active_connections, user_sessions, handlers, send_failed>>
    /\ UNCHANGED <<viz_calls, memory>>

GetDatasetContextMissing ==
    /\ engine = "adaptive" /\ pc = "get_context"
    /\ dataset_id \notin DOMAIN Datasets
    /\ ret' = AdaptiveNotFoundReturn
    /\ raised' = "lookup"
    /\ pc' = "done"
    /\ UNCHANGED <<engine, question, dataset_id, dataset, intent_analysis, sql_query, origin,
                   guard, fallbacks, gen_outcome, executed, query_results, visualization,
                   events, fail_at>>
    /\ UNCHANGED <<user_id, active_connections, user_sessions, handlers, send_failed>>
    /\ UNCHANGED <<viz_calls, memory>>

GetDatasetContextRaise ==
    /\ engine = "adaptive" /\ pc = "get_context"
    /\ ret' = AdaptiveFailureReturn("database error")
    /\ raised' = "lookup"
    /\ pc' = "done"
    /\ UNCHANGED <<engine, question, dataset_id, dataset, intent_analysis, sql_query, origin,
                   guard, fallbacks, gen_outcome, executed, query_results, visualization,
                   events, fail_at>>
    /\ UNCHANGED <<user_id, active_connections, user_sessions, handlers, send_failed>>
    /\ UNCHANGED <<viz_calls, memory>>

\* _analyze_query_intent: the collaborator's answer or the basic intent of the
\* except clause; the SQL fallback template uses neither
AnalyzeQueryIntent ==
    /\ engine = "adaptive" /\ pc = "analyze_intent"
    /\ pc' = "generate_sql"
    /\ UNCHANGED <<engine, question, dataset_id, dataset, intent_analysis, sql_query, origin,
                   guard, fallbacks, gen_outcome, executed, query_results, visualization,
                   events, raised, fail_at, ret>>
    /\ UNCHANGED <<user_id, active_connections, user_sessions, handlers, send_failed>>
    /\ UNCHANGED <<viz_calls, memory>>

\* _generate_adaptive_sql, llm_service.generate_sql answers with a text: clean
\* it and pass it to _sanitize_sql, whose ValueError the except clause turns
\* into the fallback template
GenerateAdaptiveSqlReturn(sql_response) ==
    /\ engine = "adaptive" /\ pc = "generate_sql"
    /\ gen_outcome' = "text"
    /\ IF adaptive_sql[sql_response].dangerous
       THEN /\ guard' = "rejected"
            /\ sql_query' = adaptive_fallback_sql[dataset_id]
            /\ origin' = "fallback"
            /\ fallbacks' = fallbacks + 1
       ELSE /\ guard' = "accepted"
            /\ sql_query' = adaptive_sql[sql_response].sql_query
            /\ origin' = "generated"
            /\ fallbacks' = fallbacks
    /\ pc' = "execute_safely"
    /\ UNCHANGED <<engine, question, dataset_id, dataset, intent_analysis, executed,
                   query_results, visualization, events, raised, fail_at, ret>>
    /\ UNCHANGED <<user_id, active_connections, user_sessions, handlers, send_failed>>
    /\ UNCHANGED <<viz_calls, memory>>

\* _generate_adaptive_sql, llm_service.generate_sql raises (the
\* EnhancedLLMService the engine constructs has no generate_sql attribute, so
\* with that service the call always raises): the fallback template
GenerateAdaptiveSqlFail ==
    /\ engine = "adaptive" /\ pc = "generate_sql"
    /\ gen_outcome' = "error"
    /\ sql_query' = adaptive_fallback_sql[dataset_id]
    /\ origin' = "fallback"
    /\ fallbacks' = fallbacks + 1
    /\ pc' = "execute_safely"
    /\ UNCHANGED <<engine, question, dataset_id, dataset, intent_analysis, guard, executed,
                   query_results, visualization, events, raised, fail_at, ret>>
    /\ UNCHANGED <<user_id, active_connections, user_sessions, handlers, send_failed>>
    /\ UNCHANGED <<viz_calls, memory>>

\* _execute_query_safely hands the text, with the default limit, to the store
ExecuteQuerySafely ==
    /\ engine = "adaptive" /\ pc = "execute_safely"
    /\ executed' = Append(executed, safe_sql[sql_query])
    /\ pc' = "session_execute"
    /\ UNCHANGED <<engine, question, dataset_id, dataset, intent_analysis, sql_query, origin,
                   guard, fallbacks, gen_outcome, query_results, visualization, events,
                   raised, fail_at, ret>>
    /\ UNCHANGED <<user_id, active_connections, user_sessions, handlers, send_failed>>
    /\ UNCHANGED <<viz_calls, memory>>

\* the store answers: the rows as a list of dictionaries
SessionExecuteReturn(size) ==
    /\ engine = "adaptive" /\ pc = "session_execute"
    /\ LET n == RowsReturned(executed[Len(executed)], size)
       IN  query_results' = [keys |-> {}, row_count |-> n, raw_rows |-> n,
                             truncated |-> "absent", returned |-> TRUE]
    /\ pc' = "business_answer"
    /\ UNCHANGED <<engine, question, dataset_id, dataset, intent_analysis, sql_query, origin,
                   guard, fallbacks, gen_outcome, executed, visualization, events,
                   raised, fail_at, ret>>
    /\ UNCHANGED <<user_id, active_connections, user_sessions, handlers, send_failed>>
    /\ UNCHANGED <<viz_calls, memory>>

\* the store raises: ValueError("Query execution failed"), outer except clause
SessionExecuteRaise ==
    /\ engine = "adaptive" /\ pc = "session_execute"
    /\ ret' = AdaptiveFailureReturn("Query execution failed")
    /\ raised' = "execute"
    /\ pc' = "done"
    /\ UNCHANGED <<engine, question, dataset_id, dataset, intent_analysis, sql_query, origin,
                   guard, fallbacks, gen_outcome, executed, query_results, visualization,
                   events, fail_at>>
    /\ UNCHANGED <<user_id, active_connections, user_sessions, handlers, send_failed>>
    /\ UNCHANGED <<viz_calls, memory>>

\* _generate_business_answer and _determine_optimal_visualization: both keep
\* their errors to themselves and always return
GenerateBusinessAnswer ==
    /\ engine = "adaptive" /\ pc = "business_answer"
    /\ visualization' = "built"
    /\ pc' = "store_history"
    /\ UNCHANGED <<engine, question, dataset_id, dataset, intent_analysis, sql_query, origin,
                   guard, fallbacks, gen_outcome, executed, query_results, events,
                   raised, fail_at, ret>>
    /\ UNCHANGED <<user_id, active_connections, user_sessions, handlers, send_failed>>
    /\ UNCHANGED <<viz_calls, memory>>

\* _store_query_history (errors logged, not raised), then the success object
StoreQueryHistory ==
    /\ engine = "adaptive" /\ pc = "store_history"
    /\ ret' = AdaptiveSuccessReturn
    /\ pc' = "done"
    /\ UNCHANGED <<engine, question, dataset_id, dataset, intent_analysis, sql_query, origin,
                   guard, fallbacks, gen_outcome, executed, query_results, visualization,
                   events, raised, fail_at>>
    /\ UNCHANGED <<user_id, active_connections, user_sessions, handlers, send_failed>>
    /\ UNCHANGED <<viz_calls, memory>>

\* the caller has the return value; the next question may come
ReturnToCaller ==
    /\ pc = "done"
    /\ engine' = "none"
    /\ pc' = "idle"
    /\ question' = ""
    /\ dataset_id' = ""
    /\ dataset' = NoDataset
    /\ intent_analysis' = NoIntent
    /\ sql_query' = ""
    /\ origin' = "none"
    /\ guard' = "unchecked"
    /\ fallbacks' = 0
    /\ gen_outcome' = "none"
    /\ executed' = <<>>
    /\ query_results' = NoResults
    /\ visualization' = "none"
    /\ events' = <<>>
    /\ raised' = "none"
    /\ fail_at' = 0
    /\ ret' = NoReturn
    /\ user_id' = ""
    /\ send_failed' = FALSE
    /\ UNCHANGED <<active_connections, user_sessions, handlers>>
    /\ UNCHANGED <<viz_calls, memory>>

\* the steps the program takes by itself or whose collaborator answers within
\* a bound: the lookups, the generation call (httpx timeout of 45 s), the
\* visualization and the bookkeeping
BoundedSteps ==
    \/ GetDatasetFound
    \/ GetDatasetMissing
    \/ GetDatasetRaise
    \/ \E text \in GeneratedTexts : CallOllamaReturn(text)
    \/ CallOllamaFail
    \/ ExecuteSqlQuery
    \/ GenerateAnswer
    \/ GenerateAnswerRaise
    \/ GenerateVisualization
    \/ GenerateVisualizationRaise
    \/ Complete
    \/ GetDatasetContextFound
    \/ GetDatasetContextMissing
    \/ GetDatasetContextRaise
    \/ AnalyzeQueryIntent
    \/ \E text \in GeneratedTexts : GenerateAdaptiveSqlReturn(text)
    \/ GenerateAdaptiveSqlFail
    \/ ExecuteQuerySafely
    \/ GenerateBusinessAnswer
    \/ StoreQueryHistory

\* the answers of the store to db.execute / session.execute, which the code
\* awaits without a timeout
StoreAnswers ==
    \/ \E size \in TableSizes : DbExecuteReturn(size)
    \/ DbExecuteRaise
    \/ \E size \in TableSizes : SessionExecuteReturn(size)
    \/ SessionExecuteRaise

Next ==
    \/ \E q \in Questions, d \in DatasetIds, u \in Users : ProcessQueryStart(q, d, u)
    \/ \E q \in Questions, d \in DatasetIds : ProcessNaturalLanguageQuery(q, d)
    \/ BoundedSteps
    \/ StoreAnswers
    \/ ReturnToCaller

\* the two pipelines, with no client connected
Spec == Init /\ [][Next]_vars

\* every step but the store's answer is eventually taken
FairSpec == Spec /\ WF_vars(BoundedSteps)

(***************************************************************************)
(* process_query_with_updates next to the websocket clients: sockets are   *)
(* opened, used and closed at any moment of a run.                         *)
(***************************************************************************)
ProgressQuestions == {"hello", "How many active users are there?"}
ProgressDatasetIds == {"d1", "d9"}
ProgressTexts == {"SELECT * FROM t"}
ProgressTableSizes == {1}

\* the steps of process_query_with_updates between its awaits on the store
ProgressSteps ==
    \/ GetDatasetFound
    \/ GetDatasetMissing
    \/ GetDatasetRaise
    \/ \E text \in ProgressTexts : CallOllamaReturn(text)
    \/ CallOllamaFail
    \/ ExecuteSqlQuery
    \/ GenerateAnswer
    \/ GenerateAnswerRaise
    \/ GenerateVisualization
    \/ GenerateVisualizationRaise
    \/ Complete

WebsocketSteps ==
    \/ \E s \in Sockets, c \in ConnectionIds, u \in Users : WebsocketConnect(s, c, u)
    \/ \E s \in Sockets : WebsocketReceive(s)
    \/ \E s \in Sockets : WebsocketClose(s)

ProgressNext ==
    \/ \E q \in ProgressQuestions, d \in ProgressDatasetIds, u \in Users :
           ProcessQueryStart(q, d, u)
    \/ ProgressSteps
    \/ \E size \in ProgressTableSizes : DbExecuteReturn(size)
    \/ DbExecuteRaise
    \/ ReturnToCaller
    \/ WebsocketSteps

ProgressSpec == Init /\ [][ProgressNext]_vars

(***************************************************************************)
(* _generate_fallback_sql applied to every intent analysis.                *)
(***************************************************************************)
FallbackQuestions ==
    {"top products by price", "Highest order total", "the best price", "worst price",
     "What's the average price?", "laptop price"}

FallbackTables == {"t", "sales"}

\* intent analyses: every primary intent with every entity list
FallbackIntents ==
    [primary_intent : {IntentOrder[i] : i \in 1..Len(IntentOrder)} \cup {"exploration"},
     num : {1}, den : {1},
     entities : [columns : {<<>>, <<"price">>, <<"order_total", "price">>},
                 aggregations : {<<>>, <<"AVG">>, <<"COUNT", "SUM">>}]]

\* EnhancedLLMService._generate_fallback_sql is called
FallbackCall(q, table_name, intent) ==
    /\ pc = "idle"
    /\ engine' = "llm_service"
    /\ question' = q
    /\ dataset' = [NoDataset EXCEPT !.table_name = table_name]
    /\ intent_analysis' = intent
    /\ sql_query' = _generate_fallback_sql(q, table_name, intent)
    /\ origin' = "fallback"
    /\ pc' = "fallback_returned"
    /\ UNCHANGED <<dataset_id, guard, fallbacks, gen_outcome, executed, query_results,
                   visualization, events, raised, fail_at, ret>>
    /\ UNCHANGED <<user_id, active_connections, user_sessions, handlers, send_failed>>
    /\ UNCHANGED <<viz_calls, memory>>

\* the caller drops the text
FallbackForget ==
    /\ pc = "fallback_returned"
    /\ engine' = "none"
    /\ question' = ""
    /\ dataset' = NoDataset
    /\ intent_analysis' = NoIntent
    /\ sql_query' = ""
    /\ origin' = "none"
    /\ pc' = "idle"
    /\ UNCHANGED <<dataset_id, guard, fallbacks, gen_outcome, executed, query_results,
                   visualization, events, raised, fail_at, ret>>
    /\ UNCHANGED <<user_id, active_connections, user_sessions, handlers, send_failed>>
    /\ UNCHANGED <<viz_calls, memory>>

FallbackNext ==
    \/ \E q \in FallbackQuestions, t \in FallbackTables, intent \in FallbackIntents :
           FallbackCall(q, t, intent)
    \/ FallbackForget

FallbackSpec == Init /\ [][FallbackNext]_vars

(***************************************************************************)
(* The calls of the conversation memory, in any order, each Redis call     *)
(* answering or failing.                                                   *)
(***************************************************************************)
MemoryNext ==
    \/ \E redis_ok \in BOOLEAN : MemoryConstruct(redis_ok)
    \/ \E id \in ConversationKeys, redis_ok \in BOOLEAN : CreateConversation(id, redis_ok)
    \/ \E id \in ConversationKeys, load_ok \in BOOLEAN, store_ok \in BOOLEAN :
           AddMessage(id, load_ok, store_ok)
    \/ \E id \in ConversationKeys, n \in HistoryLengths, redis_ok \in BOOLEAN :
           GetConversationHistory(id, n, redis_ok)
    \/ \E id \in ConversationKeys, load_ok \in BOOLEAN, history_ok \in BOOLEAN :
           GetConversationContext(id, load_ok, history_ok)
    \/ \E id \in ConversationKeys : RedisExpire(id)

MemorySpec == Init /\ [][MemoryNext]_vars

(***************************************************************************)
(* generate_visualization applied to every result, question and intent.    *)
(***************************************************************************)
ChartNext ==
    \/ \E s \in ResultShapes, q \in VizQuestions, it \in VizIntents : VizCall("r1", s, q, it)
    \/ VizAnalyze("r1")
    \/ VizSelect("r1")
    \/ QuerySuggest("r1")
    \/ BusinessAnswer("r1")
    \/ VizForget("r1")

ChartSpec == Init /\ [][ChartNext]_vars

(***************************************************************************)
(* Two callers on the shared visualization_engine, their calls interleaved *)
(* and repeated.                                                           *)
(***************************************************************************)
SharedShapes ==
    {Shape(<<"region", "revenue">>, 5, 5, 0, 0), Shape(<<"price">>, 1, 5, 0, 0),
     Shape(<<"notes">>, 101, 5, 0, 0), Shape(<<"order_date", "revenue">>, 11, 5, 0, 0)}
SharedQuestions == {"show status", "sales breakdown by region", "How many active users are there?"}
SharedIntents == {"count", "general"}

SharedEngineNext ==
    \E r \in Runs :
        \/ \E s \in SharedShapes, q \in SharedQuestions, it \in SharedIntents :
               VizCall(r, s, q, it)
        \/ VizAnalyze(r)
        \/ VizSelect(r)
        \/ VizForget(r)

SharedEngineSpec == Init /\ [][SharedEngineNext]_vars

(***************************************************************************)
(* Properties.                                                             *)
(***************************************************************************)
Statuses(evs) == {evs[i].status : i \in 1..Len(evs)}

\* the stage events of a data question that no stage fails
StageSequence ==
    <<Event("analyzing", 10), Event("generating_sql", 30), Event("executing", 50),
      Event("analyzing_results", 70), Event("creating_visualization", 85),
      Event("completed", 100)>>

IsPrefix(a, b) == Len(a) <= Len(b) /\ SubSeq(b, 1, Len(a)) = a

\* a run of process_query_with_updates on a question that is not small talk
DataRun == engine = "enhanced" /\ ~_is_conversational_message(question)

\* C1: in both pipelines, no SQL text whose upper-cased form contains a
\* denylisted keyword is ever handed to the execution collaborator.
C1_NoDenylistedSqlExecuted ==
    \A i \in 1..Len(executed) : ~Dangerous(executed[i])

C3_RejectedFallbackIsPlanningFailure ==
    /\ fallbacks <= 1
    /\ (origin = "fallback" /\ Dangerous(sql_query)) =>
           /\ executed = <<>>
           /\ ret.success # "true"

\* C4: every SQL text handed to the execution collaborator contains LIMIT; a
\* plan without one is executed with the default " LIMIT 1000" appended, for
\* every intent and for generated and fallback plans alike.
C4_EveryExecutedSqlHasLimit ==
    \A i \in 1..Len(executed) :
        /\ Contains(Upper(executed[i]), "LIMIT")
        /\ ~Contains(Upper(sql_query), "LIMIT") => executed[i] = WithDefaultLimit(sql_query)

\* C5: the result of every execution has at most RowCap rows and carries a
\* truncated flag that is true exactly when the store returned more than
\* RowCap rows.
C5_RowCapAndTruncatedFlag ==
    query_results.returned =>
        /\ query_results.row_count <= RowCap
        /\ query_results.truncated =
               (IF query_results.raw_rows > RowCap THEN "true" ELSE "false")

\* C6: every failure either entry point returns is an object with
\* success=false and an error message, and no returned object has success=true
\* together with an error.
C6_FailuresAreStructured ==
    pc = "done" =>
        /\ raised # "none" =>
               /\ "success" \in ret.keys /\ ret.success = "false"
               /\ "error" \in ret.keys /\ ret.error # ""
        /\ ret.success = "true" => "error" \notin ret.keys

\* C7: in process_query_with_updates, when the dataset or data source lookup
\* fails or the execution collaborator raises, failed is the next and the last
\* progress event, the return value has success=false with the error message,
\* none of analyzing_results, creating_visualization and completed is emitted
\* and no visualization is produced.
C7_LookupOrExecutionFailureIsFatal ==
    (engine = "enhanced" /\ raised \in {"lookup", "execute"}) =>
        /\ pc = "done"
        /\ events = IF raised = "lookup"
                    THEN Emit(SubSeq(StageSequence, 1, 1), "failed", 0)
                    ELSE Emit(SubSeq(StageSequence, 1, 3), "failed", 0)
        /\ ret.success = "false" /\ "error" \in ret.keys /\ ret.error # ""
        /\ Statuses(events) \cap {"analyzing_results", "creating_visualization", "completed"} = {}
        /\ visualization = "none"

C7_Witness ==
    /\ engine = "enhanced" /\ raised = "execute" /\ pc = "done"
    /\ executed # <<>>
    /\ events[Len(events)] = Event("failed", 0)

\* C8: a failure of the generation collaborator during SQL generation is
\* recovered in the planner: the plan is the fallback template, the run goes on
\* to the executing stage, and no failed event and no success=false appear
\* unless a later stage (execution, answer, visualization) fails.
C8_GenerationFailureRecovered ==
    (engine = "enhanced" /\ gen_outcome = "error") =>
        /\ origin = "fallback"
        /\ sql_query = _generate_fallback_sql(question, dataset.table_name, intent_analysis)
        /\ Len(events) >= 3 /\ events[3] = Event("executing", 50)
        /\ raised \in {"none", "execute", "answer", "visualize"}
        /\ raised = "none" => ("failed" \notin Statuses(events) /\ ret.success # "false")
        /\ (pc = "done" /\ raised = "none") => ret.success = "true"

C8_Witness ==
    /\ engine = "enhanced" /\ gen_outcome = "error" /\ pc = "done"
    /\ executed = <<sql_query>>
    /\ ret.success = "true"

\* C9: every run eventually terminates, with a completed or a failed event in
\* process_query_with_updates, even when a collaborator never answers.
C9_EveryRunTerminates ==
    (pc # "idle") ~>
        (pc = "done" /\ (engine = "enhanced" =>
                            events[Len(events)].status \in {"completed", "failed"}))

\* C10: a data question whose stages do not raise emits exactly analyzing(10),
\* generating_sql(30), executing(50), analyzing_results(70),
\* creating_visualization(85), completed(100), each once and in this order;
\* executing comes after SQL generation and before the query is executed, and
\* completed only after the visualization has been built.
C10_StageSequence ==
    (DataRun /\ raised = "none") =>
        /\ IsPrefix(events, StageSequence)
        /\ pc = "done" => events = StageSequence
        /\ "executing" \in Statuses(events) <=> gen_outcome # "none"
        /\ executed # <<>> => "executing" \in Statuses(events)
        /\ "completed" \in Statuses(events) => visualization = "built"

C10_Witness ==
    /\ DataRun /\ raised = "none" /\ pc = "done"
    /\ events = StageSequence
    /\ visualization = "built"

\* C11: within one run of process_query_with_updates the percent values of
\* the emitted progress events are non-decreasing in emission order, failing
\* runs included.
C11_PercentNonDecreasing ==
    engine = "enhanced" =>
        \A i \in 1..Len(events), j \in 1..Len(events) :
            i < j => events[i].progress <= events[j].progress

\* C11, as the code has it: the percent values are non-decreasing over the
\* events other than failed; a failed event carries 0 and is the last event.
C11_PercentNonDecreasingUntilFailed ==
    engine = "enhanced" =>
        \A i \in 1..Len(events), j \in 1..Len(events) :
            /\ (i < j /\ events[j].status # "failed") =>
                   events[i].progress <= events[j].progress
            /\ events[i].status = "failed" =>
                   (events[i].progress = 0 /\ i = Len(events))

C11_Witness ==
    /\ engine = "enhanced" /\ Len(events) = 5
    /\ events[4].progress = 70
    /\ events[5] = Event("failed", 0)

\* the number of stage events emitted when the run stands at a position
StagesAt(p) ==
    CASE p = "get_dataset" -> 1
      [] p = "call_ollama" -> 2
      [] p \in {"execute_sql", "db_execute"} -> 3
      [] p = "generate_answer" -> 4
      [] p \in {"visualize", "finish"} -> 5
      [] OTHER -> 6

\* the number of stage events emitted before a stage raises
StagesBefore(stage) ==
    CASE stage = "lookup" -> 1
      [] stage = "execute" -> 3
      [] stage = "answer" -> 4
      [] OTHER -> 5

\* the events of a run, from the question, the position and the stage that
\* raised alone
RunEvents(q, p, stage) ==
    IF _is_conversational_message(q)
    THEN <<Event("completed", 100)>>
    ELSE IF stage = "none"
         THEN SubSeq(StageSequence, 1, StagesAt(p))
         ELSE Append(SubSeq(StageSequence, 1, StagesBefore(stage)), Event("failed", 0))

\* C12: progress reporting never changes the outcome of a run of
\* process_query_with_updates: with zero, one or several connections of the
\* user, whether or not sends fail, the stages emitted and the object returned
\* are those fixed by the question and the answers of the collaborators, and
\* no step of the run waits for a consumer or fails for want of one.
C12_OutcomeIndependentOfConsumers ==
    engine = "enhanced" =>
        /\ raised \in {"none", "lookup", "execute", "answer", "visualize"}
        /\ events = RunEvents(question, pc, raised)
        /\ pc = "done" =>
              ret = IF _is_conversational_message(question) THEN ConversationalReturn
                    ELSE IF raised = "none" THEN SuccessReturn
                    ELSE FailureReturn(ret.error)
        /\ pc \notin {"done", "db_execute"} => ENABLED ProgressSteps

C12_Witness ==
    /\ DataRun /\ pc = "done" /\ raised = "none"
    /\ send_failed
    /\ Cardinality(Targets(CurrentRegistry, user_id)) = 1
    /\ events = StageSequence

\* keyword_matches of a category on a lower-cased question
KeywordMatches(intent_type, question_lower) ==
    CountIn(BusinessKeywords(intent_type), question_lower)

IntentTypes == {IntentOrder[i] : i \in 1..Len(IntentOrder)}

\* C13: _analyze_question_intent returns the category with the maximum score
\* whenever any category scores above zero, and "exploration" only when every
\* category scores zero; "How many active users are there?" is classified as
\* metrics.
C13_IntentIsMaxScoreCategory ==
    (engine = "enhanced" /\ intent_analysis # NoIntent) =>
        LET ql == Lower(question)
            primary == intent_analysis.primary_intent
        IN  /\ primary = "exploration" <=>
                  \A c \in IntentTypes : KeywordMatches(c, ql) = 0
            /\ primary # "exploration" =>
                  \A c \in IntentTypes :
                      KeywordMatches(c, ql) * Len(BusinessKeywords(primary))
                          <= KeywordMatches(primary, ql) * Len(BusinessKeywords(c))
            /\ question = "How many active users are there?" => primary = "metrics"

\* the metrics template of _generate_fallback_sql, letter case and the closing
\* semicolon left aside
IsAggregateFallback(sql, agg, col, table_name) ==
    Upper(sql) \in {Upper("SELECT " \o agg \o "(\"" \o col \o "\") AS result FROM " \o table_name) \o end :
                      end \in {"", ";"}}

\* C14: for a question that names a schema column and contains an aggregation
\* keyword, when the generation collaborator times out the SQL of the run is
\* the metrics aggregate fallback SELECT <AGG>("<column>") AS result FROM
\* <table>, not the generic SELECT * template; "What's the average price?" over
\* a schema with the column price yields SELECT AVG("price") AS result.
C14_TimeoutYieldsAggregateFallback ==
    (/\ engine = "enhanced" /\ gen_outcome = "error"
     /\ intent_analysis.entities.columns # <<>>
     /\ intent_analysis.entities.aggregations # <<>>) =>
        /\ IsAggregateFallback(sql_query, intent_analysis.entities.aggregations[1],
                               intent_analysis.entities.columns[1], dataset.table_name)
        /\ (question = "What's the average price?" /\ dataset_id = "d1") =>
               IsAggregateFallback(sql_query, "AVG", "price", "t")

\* a call of generate_visualization that has returned, on a result with rows
Selected(r) == viz_calls[r].pc = "returned" /\ viz_calls[r].request.shape.rows > 0

\* C15: whenever the query result has exactly one row and one column, the
\* chart type is the metric card or the KPI, for every question text and every
\* intent, in VisualizationEngine and in QueryEngine.
C15_SingleValueIsMetricOrKpi ==
    \A r \in Runs :
        (/\ Selected(r)
         /\ viz_calls[r].request.shape.rows = 1
         /\ Len(viz_calls[r].request.shape.columns) = 1) =>
            /\ viz_calls[r].chart_type \in {"metric_card", "kpi"}
            /\ viz_calls[r].suggestion \in {"", "metric", "kpi"}

\* C16: for a two-column result made of a categorical column with 5 distinct
\* values and a numeric column, every question containing the word
\* "breakdown" gets the pie chart type.
C16_BreakdownGetsPie ==
    \A r \in Runs :
        (/\ Selected(r)
         /\ viz_calls[r].request.shape.columns = <<"region", "revenue">>
         /\ viz_calls[r].analysis.cardinality["region"] = 5
         /\ Contains(Lower(viz_calls[r].request.question), "breakdown")) =>
            viz_calls[r].chart_type = "pie_chart"

\* C17: an explicit chart keyword in the question is checked first and is
\* decisive: "histogram" or "distribution" yields histogram, "compare" yields
\* bar, "trend" yields line, "scatter" or "correlation" yields scatter,
\* regardless of the intent, the row count and the column types of the result.
C17_ChartKeywordIsDecisive ==
    \A r \in Runs :
        Selected(r) =>
            LET ql == Lower(viz_calls[r].request.question)
                chart == viz_calls[r].chart_type
            IN  /\ AnyIn(<<"histogram", "distribution">>, ql) => chart = "histogram"
                /\ Contains(ql, "compare") => chart = "bar_chart"
                /\ Contains(ql, "trend") => chart = "line_chart"
                /\ AnyIn(<<"scatter", "correlation">>, ql) => chart = "scatter_plot"

\* the words any rule of _select_chart_type looks for in the question
SelectorKeywords ==
    <<"how many", "count", "total", "number of", "kpi", "trend", "over time", "timeline",
      "historical", "distribution", "spread", "histogram", "compare", "comparison", "vs",
      "versus", "percentage", "proportion", "share", "breakdown", "correlation",
      "relationship", "scatter">>

\* C18: when no other selector rule matches (no chart keyword, result not 1x1,
\* no date column with a numeric column, no categorical column, no numeric
\* column), the chart type is the data table, for every row count.
C18_DefaultIsDataTable ==
    \A r \in Runs :
        (/\ Selected(r)
         /\ ~AnyIn(SelectorKeywords, Lower(viz_calls[r].request.question))
         /\ viz_calls[r].request.intent_type \notin {"count", "aggregation"}
         /\ ~(viz_calls[r].request.shape.rows = 1
              /\ Len(viz_calls[r].request.shape.columns) = 1)
         /\ viz_calls[r].analysis.categorical_columns = <<>>
         /\ viz_calls[r].analysis.numeric_columns = <<>>) =>
            viz_calls[r].chart_type = "data_table"

\* the chart type of a request, from the request alone
ChartOf(request) ==
    IF request.shape.rows = 0 \/ request.shape.columns = <<>>
    THEN "empty"
    ELSE _select_chart_type(data_analysis[request.shape], request.question,
                            request.intent_type, request.shape.rows,
                            Len(request.shape.columns))

\* C19: chart selection is deterministic: the chart type returned for a
\* request is fixed by (result rows and columns, schema types, intent,
\* question) alone, so two selections with equal inputs return the same type,
\* whatever was selected earlier on the shared engine and whatever another
\* caller is doing at the same time.
C19_SelectionIsDeterministic ==
    /\ \A r \in Runs :
          viz_calls[r].pc = "returned" => viz_calls[r].chart_type = ChartOf(viz_calls[r].request)
    /\ \A r, o \in Runs :
          (/\ viz_calls[r].pc = "returned" /\ viz_calls[o].pc = "returned"
           /\ viz_calls[r].request = viz_calls[o].request) =>
              viz_calls[r].chart_type = viz_calls[o].chart_type

C19_Witness ==
    /\ viz_calls["r1"].pc = "returned" /\ viz_calls["r2"].pc = "returned"
    /\ viz_calls["r1"].request = viz_calls["r2"].request
    /\ viz_calls["r1"].chart_type = "pie_chart"

\* a is the nearest tenth of a percent to 100 * k / n
NearestTenth(a, k, n) == 2 * (IF a * n >= 1000 * k THEN a * n - 1000 * k ELSE 1000 * k - a * n) <= n

\* C20: for a result with a status column in which k of n rows (n > 0) have
\* status 'active' and a question containing 'how many' and 'active', the
\* visualization type is kpi with config value = k, total = n and percentage =
\* 100 k / n to one decimal, and the answer text reports k active rows and the
\* inactive percentage 100 (n - k) / n.
C20_ActiveUsersKpi ==
    \A r \in Runs :
        LET request == viz_calls[r].request
            k == request.shape.active
            n == request.shape.rows
            ql == Lower(request.question)
        IN  (/\ viz_calls[r].pc \in {"returned", "raised"}
             /\ viz_calls[r].answer.kind # ""
             /\ "status" \in Range(request.shape.columns) /\ n > 0
             /\ Contains(ql, "how many") /\ Contains(ql, "active")) =>
                /\ viz_calls[r].chart_type = "kpi"
                /\ viz_calls[r].config.value = k
                /\ viz_calls[r].config.total = n
                /\ NearestTenth(viz_calls[r].config.percentage, k, n)
                /\ viz_calls[r].answer.kind = "user_activity"
                /\ viz_calls[r].answer.active_count = k
                /\ NearestTenth(viz_calls[r].answer.inactive_percent, n - k, n)

(***************************************************************************)
(* C25: terminal events of a run                                           *)
(***************************************************************************)
TerminalStatuses == {"completed", "failed"}

TerminalAt == {i \in 1..Len(events) : events[i].status \in TerminalStatuses}

\* C25: a run of process_query_with_updates emits at most one terminal event
\* (completed or failed), the terminal event is the last event of the run, a
\* returned run has exactly one, and the returned success flag is true exactly
\* when that event is `completed`.
C25_ExactlyOneTerminalEvent ==
    engine = "enhanced" =>
        /\ Cardinality(TerminalAt) <= 1
        /\ \A i \in TerminalAt : i = Len(events)
        /\ (pc = "done") <=> (TerminalAt # {})
        /\ pc = "done" =>
              /\ Cardinality(TerminalAt) = 1
              /\ (ret.success = "true") <=> (events[Len(events)].status = "completed")
              /\ (ret.success = "false") <=> (events[Len(events)].status = "failed")

\* a run that failed after the SQL was generated, and returned
C25_Witness ==
    /\ engine = "enhanced" /\ pc = "done"
    /\ Len(events) >= 3
    /\ events[Len(events)].status = "failed"
    /\ ret.success = "false"
    /\ Cardinality(TerminalAt) = 1

(***************************************************************************)
(* C26: the two maps of the connection registry                            *)
(***************************************************************************)
\* WebSocketManager.get_user_count
get_user_count == Cardinality(DOMAIN user_sessions)

\* the users that have a connection in active_connections
UsersWithLiveConnection ==
    {u \in DOMAIN user_sessions : user_sessions[u] \cap DOMAIN active_connections # {}}

\* C26: every connection id listed in a user_sessions entry is a key of
\* active_connections and no user_sessions entry is empty, so get_user_count
\* counts exactly the users that have a live connection.
C26_SessionsAreLiveConnections ==
    /\ \A u \in DOMAIN user_sessions :
          /\ user_sessions[u] # {}
          /\ user_sessions[u] \subseteq DOMAIN active_connections
    /\ get_user_count = Cardinality(UsersWithLiveConnection)

(***************************************************************************)
(* C27: a connection id reused by a newer socket                           *)
(***************************************************************************)
\* the handler of socket s ends in this step
HandlerEnds(s) == handlers[s].state = "open" /\ handlers'[s].state = "new"

\* connection id c is registered to a socket other than s
RegisteredToOther(c, s) ==
    c \in DOMAIN active_connections /\ active_connections[c] # s

\* C27: when the handler of an older socket ends while its connection id is
\* registered to a newer socket, the finally-disconnect leaves the newer
\* socket's registration in place: the id is still a key of active_connections,
\* still maps to the newer socket and is still listed for its user.
C27_OldHandlerKeepsNewRegistration ==
    [][\A s \in Sockets :
          LET c == handlers[s].connection_id
          IN  (HandlerEnds(s) /\ RegisteredToOther(c, s)) =>
                 /\ c \in DOMAIN active_connections'
                 /\ active_connections'[c] = active_connections[c]
                 /\ \E u \in DOMAIN user_sessions' : c \in user_sessions'[u]]_vars

(***************************************************************************)
(* C23: the keyword guard of the adaptive engine                           *)
(***************************************************************************)
\* keyword k stands in s at position i, letter case ignored
KeywordStandsAt(s, k, i) ==
    /\ i + Len(k) - 1 <= Len(s)
    /\ \A j \in 1..Len(k) : UpperCh(Ch(s, i + j - 1)) = Ch(k, j)

\* s holds a denylist keyword as a substring, in any letter case and at any
\* place, the middle of an identifier included
HoldsKeyword(s) ==
    \E n \in 1..Len(dangerous_patterns) :
        \E i \in 1..Len(s) : KeywordStandsAt(s, dangerous_patterns[n], i)

\* C23: _sanitize_sql rejects exactly the texts that hold a denylist keyword
\* as a substring, whatever the letter case and also inside an identifier, and
\* returns every other text unchanged.
C23_GuardRejectsExactlyKeywordTexts ==
    [][\A text \in GeneratedTexts :
          GenerateAdaptiveSqlReturn(text) =>
             LET sql == AdaptiveClean(text)
             IN  /\ (guard' = "rejected") <=> HoldsKeyword(sql)
                 /\ (guard' = "accepted") <=> ~HoldsKeyword(sql)
                 /\ guard' = "accepted" => sql_query' = sql]_vars

\* the guard has rejected a generated text
C23_Witness ==
    /\ engine = "adaptive" /\ pc = "execute_safely"
    /\ gen_outcome = "text" /\ guard = "rejected" /\ origin = "fallback"

(***************************************************************************)
(* C28: questions that hold a data-analysis indicator                      *)
(***************************************************************************)
\* the question holds one of the data indicators of _is_conversational_message
HasDataIndicator(q) == AnyIn(data_indicators, Strip(Lower(q)))

\* C28: a question that holds a data-analysis indicator ('show', 'count',
\* 'which', 'this data', 'users', 'chart', ...) is never treated as
\* conversational: its run starts the data pipeline with the analyzing event.
C28_DataIndicatorIsNeverConversational ==
    (engine = "enhanced" /\ pc # "idle" /\ HasDataIndicator(question)) =>
        /\ Len(events) >= 1
        /\ events[1].status = "analyzing"
        /\ ~(pc = "done" /\ Len(events) = 1)

(***************************************************************************)
(* C29: the fallback templates                                             *)
(***************************************************************************)
\* a statement with its closing semicolon dropped and the alias keyword in
\* capitals
Statement(sql) == Replace(RStripCh(sql, ";"), " as ", " AS ")

\* the question holds top, highest or best
AsksForLargest(q) == \E w \in {"top", "highest", "best"} : Contains(Lower(q), w)

\* C29: _generate_fallback_sql returns, for primary intent metrics with an
\* aggregation, SELECT AGG("col") AS result with the first aggregation and the
\* first column, or SELECT COUNT(*) AS total_records when there is no column;
\* for rankings with a column SELECT * ... ORDER BY "col" DIR LIMIT 10, DIR
\* being DESC exactly when the question holds top, highest or best; and
\* SELECT * FROM table LIMIT 10 in every other case.
C29_FallbackTemplates ==
    pc = "fallback_returned" =>
        LET t == dataset.table_name
            cols == intent_analysis.entities.columns
            aggs == intent_analysis.entities.aggregations
            kind == intent_analysis.primary_intent
            sql == Statement(sql_query)
        IN  /\ (kind = "metrics" /\ aggs # <<>> /\ cols # <<>>) =>
                  sql = "SELECT " \o aggs[1] \o "(\"" \o cols[1] \o "\") AS result FROM " \o t
            /\ (kind = "metrics" /\ aggs # <<>> /\ cols = <<>>) =>
                  sql = "SELECT COUNT(*) AS total_records FROM " \o t
            /\ (kind = "rankings" /\ cols # <<>> /\ AsksForLargest(question)) =>
                  sql = "SELECT * FROM " \o t \o " ORDER BY \"" \o cols[1] \o "\" DESC LIMIT 10"
            /\ (kind = "rankings" /\ cols # <<>> /\ ~AsksForLargest(question)) =>
                  sql = "SELECT * FROM " \o t \o " ORDER BY \"" \o cols[1] \o "\" ASC LIMIT 10"
            /\ (~(kind = "metrics" /\ aggs # <<>>) /\ ~(kind = "rankings" /\ cols # <<>>)) =>
                  sql = "SELECT * FROM " \o t \o " LIMIT 10"

\* a ranking question that does not ask for the largest values
C29_Witness ==
    /\ pc = "fallback_returned"
    /\ intent_analysis.primary_intent = "rankings"
    /\ intent_analysis.entities.columns = <<"order_total", "price">>
    /\ question = "worst price"
    /\ sql_query = "SELECT * FROM sales ORDER BY \"order_total\" ASC LIMIT 10;"

(***************************************************************************)
(* C21, C22: the configuration and the insights of a visualization         *)
(***************************************************************************)
\* C21: for every chart type the selector returns, the configuration built by
\* _generate_chart_config is plain data: every color in it is a value resolved
\* from the palette, none is a callable, so the configuration can be written
\* into the message of the completed event.
C21_ConfigHoldsNoCallable ==
    \A r \in Runs :
        viz_calls[r].pc = "returned" =>
            \A c \in viz_calls[r].config.colors : c.value # "callable"

\* C22: the insight list of a visualization has at most 4 entries for every
\* chart type and every result, with or without missing values, and producing
\* it never calls the generation collaborator.
C22_AtMostFourInsights ==
    \A r \in Runs :
        viz_calls[r].pc = "returned" =>
            /\ Len(viz_calls[r].insights) <= 4
            /\ gen_outcome = "none"

(***************************************************************************)
(* C24, C30: the conversation memory                                       *)
(***************************************************************************)
MemoryCalls ==
    {"create_conversation", "add_message", "get_conversation_history",
     "get_conversation_context"}

\* C24: whether Redis is unreachable at construction, fails during a later
\* store or load, or holds no entry for the id, create_conversation,
\* add_message, get_conversation_history and get_conversation_context complete
\* without raising, and looking up an id that was never created yields an
\* empty result.
C24_MemoryFallsBackWithoutRaising ==
    memory.result.op \in MemoryCalls =>
        /\ memory.result.outcome = "returned"
        /\ (memory.result.id \notin memory.created /\ memory.result.op # "create_conversation") =>
              /\ memory.result.answer \in {"False", "list", "empty"}
              /\ memory.result.value = <<>>

\* the messages a load finds for a conversation
StoredMessages(id) ==
    IF memory.use_redis /\ id \in DOMAIN memory.redis THEN memory.redis[id]
    ELSE IF id \in DOMAIN memory.conversations THEN memory.conversations[id]
    ELSE <<>>

\* the messages numbered a+1 .. b
Numbered(a, b) == [i \in 1..(b - a) |-> a + i]

MinOf(a, b) == IF a <= b THEN a ELSE b

\* C30: after any sequence of add_message calls on an existing conversation
\* the stored history holds at most 20 messages, the most recently added ones
\* in insertion order; get_conversation_history(id, n) returns the last
\* min(n, stored) of them in that order for every n >= 0; add_message on an
\* unknown id returns False and stores nothing.
C30_HistoryIsBoundedAndOrdered ==
    /\ \A id \in memory.created :
          (id \in DOMAIN memory.redis \/ id \in DOMAIN memory.conversations) =>
              LET total == memory.added[id]
                  kept == MinOf(total, 20)
              IN  /\ Len(StoredMessages(id)) <= 20
                  /\ StoredMessages(id) = Numbered(total - kept, total)
    /\ (memory.result.op = "get_conversation_history" /\ memory.result.id \in memory.created) =>
          LET total == memory.added[memory.result.id]
              stored == MinOf(total, 20)
              n == MinOf(memory.result.n, stored)
          IN  /\ memory.result.outcome = "returned"
              /\ memory.result.value = Numbered(total - n, total)
    /\ (memory.result.op = "add_message" /\ memory.result.id \notin memory.created) =>
          /\ memory.result.outcome = "returned"
          /\ memory.result.answer = "False"
          /\ memory.result.id \notin DOMAIN memory.redis \cup DOMAIN memory.conversations

====
